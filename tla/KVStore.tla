------------------------------ MODULE KVStore ------------------------------
(***************************************************************************)
(* What the engine promises a client, whatever happens to the power: one   *)
(* durable value per key, replaced through a moment in which the key has   *)
(* none.  A value disappears only to be replaced by itself (it is being    *)
(* moved) or by the value the client asked for; when no call is in         *)
(* progress, what the client reads is what is durable.  A power cut        *)
(* changes nothing durable, but a value caught in the gap is gone: the key *)
(* comes back with its default.  No older value ever comes back.           *)
(***************************************************************************)
EXTENDS Integers

CONSTANTS Key, Value, Default, Gone

VARIABLES
    db,      \* the durable value of each key, or Gone
    ram,     \* the client's copy of each value
    known,   \* keys whose copy stands for a durable value
    busy,    \* a call (or the start-up) is in progress
    want,    \* {<<k, v>>} during a call that sets k to v, otherwise {}
    reply    \* what the last call, or the start-up, returned

vars == <<db, ram, known, busy, want, reply>>

Init ==
    /\ db = [k \in Key |-> Gone]
    /\ ram = [k \in Key |-> Default]
    /\ known = {}
    /\ busy = TRUE
    /\ want = {}
    /\ reply = "none"

(* Between calls every known key is durable and its copy right, and no     *)
(* other key has a value.                                                  *)
Settled(m, K) == \A k \in Key : db[k] = IF k \in K THEN m[k] ELSE Gone

(* A call starts; one that writes a value is given a different one.       *)
Start ==
    /\ ~busy
    /\ busy' = TRUE
    /\ \/ want' = {}
       \/ \E k \in Key : \E v \in Value \ {db[k]} : want' = {<<k, v>>}
    /\ reply' = "none"
    /\ UNCHANGED <<db, ram, known>>

(* A call has nothing to do but to read key k, which succeeds if the key   *)
(* is known.                                                               *)
Answer(k) ==
    /\ ~busy
    /\ reply' = IF k \in known THEN "ok" ELSE "err"
    /\ UNCHANGED <<db, ram, known, busy, want>>

(* The values that may become durable for key k.                          *)
Candidates(k) == {ram[k]} \cup {v \in Value : <<k, v>> \in want}

(* Only a value that RAM holds may be withdrawn: what then takes its place *)
(* is that value, or the one that was asked for.  So a start-up has to     *)
(* learn a value before it moves it.                                       *)
Withdraw(k) ==
    /\ busy
    /\ k \in known /\ ram[k] = db[k] /\ db[k] # Gone
    /\ db' = [db EXCEPT ![k] = Gone]
    /\ UNCHANGED <<ram, known, busy, want, reply>>

Commit(k) ==
    /\ busy
    /\ db[k] = Gone
    /\ \E v \in Candidates(k) : db' = [db EXCEPT ![k] = v]
    /\ \/ UNCHANGED known
       \/ known' = known \cup {k}
    /\ UNCHANGED <<ram, busy, want, reply>>

(* The copies of some durable values are refreshed.                       *)
Refresh ==
    \E K \in SUBSET {k \in Key : db[k] # Gone} :
        /\ ram' = [k \in Key |-> IF k \in K THEN db[k] ELSE ram[k]]
        /\ known' = known \cup K

Learn ==
    /\ busy
    /\ Refresh
    /\ UNCHANGED <<db, busy, want, reply>>

(* A call succeeds only when what it had to write is durable.             *)
Finish ==
    /\ busy
    /\ \A k \in Key : \A v \in Value : <<k, v>> \in want => db[k] = v
    /\ Refresh
    /\ Settled(ram', known')
    /\ busy' = FALSE
    /\ want' = {}
    /\ reply' = "ok"
    /\ UNCHANGED db

(* A call that fails leaves the value that the client reads; a start-up    *)
(* that fails leaves the engine out of use.                                *)
GiveUp ==
    /\ busy
    /\ \/ busy' = FALSE /\ Settled(ram, known)
       \/ busy' = TRUE /\ want = {}
    /\ want' = {}
    /\ reply' = "err"
    /\ UNCHANGED <<db, ram, known>>

Delete(k) ==
    /\ ~busy
    /\ k \in known
    /\ db' = [db EXCEPT ![k] = Gone]
    /\ known' = known \ {k}
    /\ reply' = "ok"
    /\ UNCHANGED <<ram, busy, want>>

PowerCut ==
    /\ ram' = [k \in Key |-> Default]
    /\ known' = {}
    /\ busy' = TRUE
    /\ want' = {}
    /\ reply' = "none"
    /\ UNCHANGED db

Next ==
    \/ Start \/ Learn \/ Finish \/ GiveUp \/ PowerCut
    \/ \E k \in Key : Answer(k) \/ Withdraw(k) \/ Commit(k) \/ Delete(k)

Spec == Init /\ [][Next]_vars
=============================================================================
