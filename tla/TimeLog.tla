------------------------------- MODULE TimeLog -------------------------------
(***************************************************************************)
(* What a time series log promises: entries in the order of their times,   *)
(* of which only the oldest are ever dropped, and only to make room for a  *)
(* new one.  A call cut short by a power loss has taken effect or has not, *)
(* or has only made room.                                                  *)
(***************************************************************************)
EXTENDS Integers, Sequences

CONSTANTS
    Time, Length, Status,
    MaxDrop    \* how many entries making room may cost

VARIABLES
    log,    \* the entries, oldest first
    call    \* the last call: what it was asked and how it ended

vars == <<log, call>>

Init == log = <<>> /\ call = [op |-> "start", time |-> 0, res |-> "cut"]

Latest == IF log = <<>> THEN 0 ELSE log[Len(log)].time
Room == {n \in 0..MaxDrop : n <= Len(log)}
Drop(n) == SubSeq(log, n + 1, Len(log))
Asked(op) == call'.op = op

Append_(t, l) ==
    LET entry == [time |-> t, len |-> l, st |-> 2] IN
    /\ Asked("append") /\ call'.time = t
    /\ \/ /\ call'.res \in {"ok", "cut"} /\ t > Latest
          /\ \E n \in Room : log' = Append(Drop(n), entry)
       \/ call'.res \in {"err", "full", "cut"} /\ log' = log
       \/ call'.res = "cut" /\ \E n \in Room : log' = Drop(n)

SetStatus(i, st) ==
    /\ Asked("set_status")
    /\ \/ call'.res \in {"ok", "cut"} /\ log' = [log EXCEPT ![i].st = IF st > @ THEN st ELSE @]
       \/ call'.res = "cut" /\ log' = log

(* Cut short, cleaning may leave some of the log.                         *)
Clean ==
    /\ Asked("clean")
    /\ \/ call'.res = "ok" /\ log' = <<>>
       \/ call'.res = "cut" /\ \E m, n \in 0..Len(log) : log' = SubSeq(log, m + 1, n)

(* Starting up, powering down, changing the rollover option.              *)
Other == Asked("start") /\ log' = log

Next ==
    \/ Clean \/ Other
    \/ \E t \in Time, l \in Length : Append_(t, l)
    \/ \E i \in 1..Len(log), st \in Status : SetStatus(i, st)

Spec == Init /\ [][Next]_vars
=============================================================================
