----------------------------- MODULE MCDispatch -----------------------------
(* Small instances of Dispatch for TLC *)
EXTENDS Dispatch, TLC

CONSTANTS w1, w2, ext

\* Worker w1 has the weight of the first four workers of StartWorker's table,
\* w2 that of the next four.
MCWorker == {w1, w2}
MCWeight == (w1 :> -1) @@ (w2 :> 0)
MCOneWorker == {w1}
MCOneWeight == (w1 :> -1)
MCExternal == {ext}

\* Service ids are interchangeable: nothing orders them.
ServiceSymmetry == Permutations(Service)
=============================================================================
