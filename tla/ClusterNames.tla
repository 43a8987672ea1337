---------------------------- MODULE ClusterNames ----------------------------
(***************************************************************************)
(* The names that clusterd (examples/clusterd.lua) publishes for services  *)
(* of its node, in two tables.  A service is registered under the key that *)
(* the command brings: the integer its messages come from, or the string   *)
(* that was given as its address; the two are different keys of a table.   *)
(***************************************************************************)
CONSTANTS Name,     \* names of services
          Service,  \* local services
          Nil       \* nil in the tables

Key == {"integer", "string"} \X Service

VARIABLES register_name,  \* the published names: name -> key
          register_addr   \* and key -> name

vars == <<register_name, register_addr>>

Init ==
    /\ register_name = [n \in Name |-> Nil]
    /\ register_addr = [a \in Key |-> Nil]

\* Mutant: the name the key had before stays.
register_Keep(name, addr) ==
    /\ register_name' = [register_name EXCEPT ![name] = addr]
    /\ register_addr' = [register_addr EXCEPT ![addr] = name]

\* command.register: the name the key had before is taken away.
register(name, addr) ==
    /\ register_name' = [n \in Name |-> IF n = name THEN addr
                                        ELSE IF n = register_addr[addr] THEN Nil ELSE register_name[n]]
    /\ register_addr' = [register_addr EXCEPT ![addr] = name]

\* command.unregister: a name that is not registered is left alone.
unregister(name) ==
    /\ register_name[name] # Nil
    /\ register_name' = [register_name EXCEPT ![name] = Nil]
    /\ register_addr' = [register_addr EXCEPT ![register_name[name]] = Nil]

Next == \E name \in Name : unregister(name) \/ \E addr \in Key : register(name, addr)

Spec == Init /\ [][Next]_vars

-----------------------------------------------------------------------------
(* Properties *)

\* The types of the two tables.
TypeOK ==
    /\ register_name \in [Name -> Key \cup {Nil}]
    /\ register_addr \in [Key -> Name \cup {Nil}]

\* Every published name leads back from its key: whatever is registered again, under
\* other names or by other services, the key of a name is listed under that name, so
\* that no key is published under two names.  (A service has two keys.)
NamesLeadBack == \A n \in Name : register_name[n] # Nil => register_addr[register_name[n]] = n

\* The comment at clusterd.lua:21 calls the tables two directions of one relation:
\* a service is published under one name.  Not so: it has two keys.
NamedOnce ==
    \A n, k \in Name :
      register_name[n] # Nil /\ register_name[k] # Nil /\ register_name[n][2] = register_name[k][2] => n = k
=============================================================================
