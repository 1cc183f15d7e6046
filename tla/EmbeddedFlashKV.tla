-------------------------- MODULE EmbeddedFlashKV --------------------------
(***************************************************************************)
(* The engine implements KVStore: the durable value of a key is that of    *)
(* its live record.                                                        *)
(***************************************************************************)
EXTENDS EmbeddedFlash

CONSTANT Gone    \* "no durable value"

ASSUME GoneAssumption == Gone \notin Value

LiveAddrs(k) == LiveAt(k) \cap Seen
Durable ==
    [k \in Key |-> IF LiveAddrs(k) = {} THEN Gone
                   ELSE SlotAt(CHOOSE a \in LiveAddrs(k) : TRUE).val]

Copies     == [k \in Key |-> kv[k].val]
StoredKeys == {k \in Key : kv[k].stored}

(* A set that writes leaves its frame at the bottom of the stack.          *)
Asked(q) ==
    {<<q[n].key, q[n].val>> : n \in {m \in 1..Len(q) :
        m = Len(q) /\ q[m].pc \in {"set_written", "set_commit", "set_deleted"}}}

KV == INSTANCE KVStore WITH
        db <- Durable, ram <- Copies, known <- StoredKeys,
        busy <- ~Ready, want <- Asked(todo), reply <- reply

(* Every behaviour of the engine under a careful client, power cuts        *)
(* included, is one of KVStore: a set is atomic but for a moment in which  *)
(* the key has no value, garbage collection and recovery are invisible,    *)
(* and no call returns before what the client reads is durable.            *)
ImplementsKVStore == KV!Spec
=============================================================================
