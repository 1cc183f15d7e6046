------------------------------ MODULE AtomicMap ------------------------------
(***************************************************************************)
(* What a store with power-off protection promises: a map that changes     *)
(* only by the calls made on it.  A call that returns has taken effect; a  *)
(* call cut short by a power loss has or has not, and nothing else changes *)
(* (only resetting to defaults may stop half way, key by key).             *)
(***************************************************************************)
CONSTANTS Key, Value, Absent, Defaults

VARIABLES
    map,    \* the value of each key, or Absent
    call    \* the last call: what it was asked and how it ended

vars == <<map, call>>

Init ==
    /\ map = Defaults
    /\ call = [op |-> "start", key |-> Absent, val |-> Absent, res |-> "cut"]

Asked(op, k, v) == call'.op = op /\ call'.key = k /\ call'.val = v

Set(k, v) ==
    /\ Asked("set", k, v)
    /\ \/ call'.res \in {"ok", "cut"} /\ map' = [map EXCEPT ![k] = v]
       \/ call'.res \in {"full", "cut"} /\ map' = map

Remove(k) ==
    /\ Asked("del", k, Absent)
    /\ \/ call'.res \in {"ok", "cut"} /\ map' = [map EXCEPT ![k] = Absent]
       \/ call'.res = "absent" /\ map[k] = Absent /\ map' = map
       \/ call'.res = "cut" /\ map' = map

Get(k) ==
    /\ \E v \in Value \cup {Absent} :
          Asked("get", k, v) /\ (call'.res = "ok" => v = map[k])
    /\ map' = map

(* Iterating, checking, starting up.                                      *)
Other ==
    /\ \E op \in {"scan", "start"} : Asked(op, Absent, Absent)
    /\ map' = map

Reset ==
    /\ Asked("reset", Absent, Absent)
    /\ \/ call'.res = "ok" /\ map' = Defaults
       \/ call'.res = "cut" /\ \A k \in Key : map'[k] \in {map[k], Defaults[k], Absent}

Next ==
    \/ Other \/ Reset
    \/ \E k \in Key : Remove(k) \/ Get(k) \/ \E v \in Value : Set(k, v)

Spec == Init /\ [][Next]_vars
=============================================================================
