-------------------------- MODULE FlashPort_proofs --------------------------
(***************************************************************************)
(* For every flash size, page size, content and number of faults: a write  *)
(* to an erased range leaves a prefix of its data at every half-word, and  *)
(* EF_OK means that the data is there; a rewrite succeeds and changes      *)
(* nothing.                                                                *)
(***************************************************************************)
EXTENDS FlashPort, TLAPS

(* How far the running call is; a write is in the middle of word i.        *)
Progress ==
    /\ pc # "idle" => addr <= i /\ i <= end
    /\ pc \in {"lo", "hi", "verify", "erase"} => i < end
    /\ pc \in {"idle", "erase"} => buf = BlankFlash
TInv == TypeOK /\ Progress

LEMMA Sizes == NumWords \in Nat \ {0} /\ PageWords \in Nat \ {0} /\ MaxFaults \in Nat
BY PortAssumption DEF PortAssumption

LEMMA Zero == 0 \in Address /\ 0 \in 0..NumWords /\ 0 \in 0..MaxFaults
BY Sizes DEF Address

LEMMA BlankIsWord == Blank \in Word /\ BlankFlash \in [Address -> Word]
BY PortAssumption DEF PortAssumption, Blank, Word, BlankFlash

LEMMA TInvInitial == Init => TInv
BY Zero, BlankIsWord DEF Init, TInv, TypeOK, Progress, Pcs, Results

(* The parameters, buffers and counters stay in their ranges, because a    *)
(* call never moves past the end of its range.                             *)
LEMMA TInvStep == TInv /\ [Next]_vars => TInv'
<1> SUFFICES ASSUME TInv, [Next]_vars PROVE TypeOK' /\ Progress'
  BY DEF TInv
<1> USE DEF TInv, TypeOK, Progress
<1>1. ASSUME NEW a \in Address, NEW n \in 1..NumWords, Write(a, n)
      PROVE  TypeOK' /\ Progress'
  <2>1. a \in 0..NumWords /\ a + n \in 0..NumWords /\ a < a + n
    BY <1>1, Sizes DEF Write, Fits, Address
  <2>2. PICK w \in [a..(a + n - 1) -> Word] :
           buf' = [x \in Address |-> IF x \in DOMAIN w THEN w[x] ELSE Blank]
    BY <1>1 DEF Write
  <2>3. buf' \in [Address -> Word]
    BY <2>2, BlankIsWord
  <2>4. TypeOK'
    BY <1>1, <2>1, <2>3 DEF Write, Pcs, Results
  <2>5. Progress'
    BY <1>1, <2>1 DEF Write, Address
  <2> QED
    BY <2>4, <2>5
<1>2. ASSUME NEW a \in Address, NEW n \in 1..NumWords, Erase(a, n)
      PROVE  TypeOK' /\ Progress'
  <2>1. a \in 0..NumWords /\ a + n \in 0..NumWords /\ a < a + n
    BY <1>2, Sizes DEF Erase, Fits, Address
  <2>2. TypeOK'
    BY <1>2, <2>1 DEF Erase, Pcs, Results
  <2>3. Progress'
    BY <1>2, <2>1 DEF Erase, Address
  <2> QED
    BY <2>2, <2>3
<1>3. CASE ProgramLow
  <2>1. i \in Address /\ i + 1 \in 0..NumWords
    BY <1>3, Sizes DEF ProgramLow, Address
  <2>2. mem' \in [Address -> Word]
    <3>1. buf[i].lo \in Half
      BY <2>1 DEF Word
    <3>2. mem' \in {mem, [mem EXCEPT ![i].lo = buf[i].lo]}
      BY <1>3 DEF ProgramLow
    <3> QED
      BY <2>1, <3>1, <3>2 DEF Word
  <2>3. TypeOK'
    BY <1>3, <2>1, <2>2 DEF ProgramLow, NextWord, call, Pcs
  <2>4. Progress'
    BY <1>3, <2>1, Sizes DEF ProgramLow, NextWord, call, Address
  <2> QED
    BY <2>3, <2>4
<1>4. CASE ProgramHigh
  <2>1. i \in Address /\ i + 1 \in 0..NumWords
    BY <1>4, Sizes DEF ProgramHigh, Address
  <2>2. mem' \in [Address -> Word]
    <3>1. buf[i].hi \in Half
      BY <2>1 DEF Word
    <3>2. mem' \in {mem, [mem EXCEPT ![i].hi = buf[i].hi]}
      BY <1>4 DEF ProgramHigh
    <3> QED
      BY <2>1, <3>1, <3>2 DEF Word
  <2>3. TypeOK'
    BY <1>4, <2>1, <2>2 DEF ProgramHigh, NextWord, call, Pcs
  <2>4. Progress'
    BY <1>4, <2>1, Sizes DEF ProgramHigh, NextWord, call, Address
  <2> QED
    BY <2>3, <2>4
<1>5. CASE ProgramFault
  BY <1>5, Sizes DEF ProgramFault, Fault, call, Pcs, Results
<1>6. CASE Verify
  <2>1. i + 1 \in 0..NumWords
    BY <1>6, Sizes DEF Verify
  <2>2. TypeOK'
    BY <1>6, <2>1 DEF Verify, NextWord, call, Pcs, Results
  <2>3. Progress'
    BY <1>6, <2>1, Sizes DEF Verify, NextWord, call, Address
  <2> QED
    BY <2>2, <2>3
<1>7. CASE ErasePage
  <2>1. mem' \in [Address -> Word]
    BY <1>7, BlankIsWord DEF ErasePage
  <2>2. i + PageWords < end => i + PageWords \in 0..NumWords
    BY Sizes
  <2>3. TypeOK'
    BY <1>7, <2>1, <2>2, Sizes DEF ErasePage, call, Pcs
  <2>4. Progress'
    BY <1>7, Sizes DEF ErasePage, call, Address
  <2> QED
    BY <2>3, <2>4
<1>8. CASE EraseFault
  BY <1>8, Sizes DEF EraseFault, Fault, call, Pcs, Results
<1>9. CASE Lock \/ PowerCut
  BY <1>9, Zero, BlankIsWord DEF Lock, PowerCut, EndCall, Pcs, Results
<1>10. CASE UNCHANGED vars
  BY <1>10 DEF vars
<1> QED
  BY <1>1, <1>2, <1>3, <1>4, <1>5, <1>6, <1>7, <1>8, <1>9, <1>10 DEF Next

(* Type correctness of the port.                                           *)
THEOREM TypeCorrect == Spec => []TypeOK
<1>1. Spec => []TInv
  BY TInvInitial, TInvStep, PTL DEF Spec
<1> QED
  BY <1>1, PTL DEF TInv

-----------------------------------------------------------------------------
(* In a call on an erased range, the words before i are stored, the words  *)
(* after it are erased, and word i is as far as pc says.                   *)
WordState ==
    /\ pc = "lo" => mem[i] = Blank
    /\ pc = "hi" => mem[i].lo = buf[i].lo /\ mem[i].hi = FF
    /\ pc = "verify" => mem[i] = buf[i]
    /\ (pc = "lock" /\ i < end /\ mem[i].hi # FF) => mem[i].lo = buf[i].lo
Surroundings ==
    \A a \in Range_ : (a < i => mem[a] = buf[a]) /\ (a > i => mem[a] = Blank)
StillBlank == \A a \in Range_ : mem[a] = Blank

WInv ==
    /\ TInv
    /\ (InCall /\ Fresh) => WordState /\ Surroundings
    /\ (pc = "erase" /\ Fresh) => StillBlank

LEMMA WInvInitial == Init => WInv
<1>1. Init => TInv
  BY TInvInitial
<1> QED
  BY <1>1 DEF Init, WInv, InCall

LEMMA WInvStep == WInv /\ [Next]_vars => WInv'
<1> SUFFICES ASSUME WInv, [Next]_vars
             PROVE  /\ (InCall /\ Fresh => WordState /\ Surroundings)'
                    /\ (pc = "erase" /\ Fresh => StillBlank)'
  BY TInvStep DEF WInv
<1>0. TypeOK /\ Progress
  BY DEF WInv, TInv
<1> USE DEF InCall
<1>1. ASSUME NEW a \in Address, NEW n \in 1..NumWords, Write(a, n), Fresh'
      PROVE  (WordState /\ Surroundings)'
  <2>1. a \in Int /\ n \in Nat /\ n > 0
    BY <1>1, Sizes DEF Address
  <2>2. /\ addr' = a /\ i' = a /\ end' = a + n /\ before' = mem /\ mem' = mem
        /\ pc' = "lo"
    BY <1>1 DEF Write
  <2>3. \A x \in a..(a + n - 1) : mem[x] = Blank
    <3>1. Range_' = a..(a + n - 1)
      BY <2>1, <2>2 DEF Range_
    <3> QED
      BY <1>1, <2>2, <3>1 DEF Fresh
  <2>4. WordState'
    BY <2>1, <2>2, <2>3 DEF WordState
  <2>5. Surroundings'
    BY <2>1, <2>2, <2>3 DEF Surroundings, Range_
  <2> QED
    BY <2>4, <2>5
<1>2. ASSUME NEW a \in Address, NEW n \in 1..NumWords, Erase(a, n), Fresh'
      PROVE  StillBlank'
  <2>1. /\ addr' = a /\ end' = a + n /\ before' = mem /\ mem' = mem
    BY <1>2 DEF Erase
  <2> QED
    BY <1>2, <2>1 DEF Fresh, StillBlank, Range_
<1>3. /\ Range_ \subseteq Address /\ Range_ \subseteq Int /\ i \in Int
      /\ (i < end /\ pc # "idle") => i \in Range_
  BY <1>0, Sizes DEF TypeOK, Progress, Range_, Address
<1>4. CASE ProgramLow
  <2>1. pc = "lo" /\ i \in Range_ /\ i \in Address /\ i < end
    BY <1>0, <1>3, <1>4 DEF ProgramLow, Progress
  <2>2. Range_' = Range_ /\ Fresh' = Fresh /\ buf' = buf /\ end' = end
    BY <1>4 DEF ProgramLow, call, Range_, Fresh
  <2>3. pc' # "erase"
    BY <1>4 DEF ProgramLow, NextWord
  <2>4. ASSUME Fresh PROVE (WordState /\ Surroundings)'
    <3>1. WordState /\ Surroundings /\ mem[i] = Blank
      BY <2>1, <2>4 DEF WInv, WordState
    <3>2. mem' = [mem EXCEPT ![i].lo = buf[i].lo] /\ pc' = "hi" /\ i' = i
      BY <1>4, <3>1 DEF ProgramLow, CanProgram, Blank
    <3>3. mem'[i].lo = buf[i].lo /\ mem'[i].hi = FF
      BY <1>0, <2>1, <3>1, <3>2 DEF TypeOK, Word, Blank
    <3>4. \A a \in Range_ : a # i => mem'[a] = mem[a]
      BY <1>0, <1>3, <3>2 DEF TypeOK
    <3>5. WordState'
      BY <2>2, <3>2, <3>3 DEF WordState
    <3>6. Surroundings'
      BY <1>3, <2>2, <3>1, <3>2, <3>4 DEF Surroundings
    <3> QED
      BY <3>5, <3>6
  <2> QED
    BY <2>2, <2>3, <2>4
<1>5. CASE ProgramHigh
  <2>1. pc = "hi" /\ i \in Range_ /\ i \in Address /\ i < end
    BY <1>0, <1>3, <1>5 DEF ProgramHigh, Progress
  <2>2. Range_' = Range_ /\ Fresh' = Fresh /\ buf' = buf /\ end' = end
    BY <1>5 DEF ProgramHigh, call, Range_, Fresh
  <2>3. pc' # "erase"
    BY <1>5 DEF ProgramHigh, NextWord
  <2>4. ASSUME Fresh PROVE (WordState /\ Surroundings)'
    <3>1. WordState /\ Surroundings /\ mem[i].lo = buf[i].lo /\ mem[i].hi = FF
      BY <2>1, <2>4 DEF WInv, WordState
    <3>2. mem' = [mem EXCEPT ![i].hi = buf[i].hi] /\ pc' = "verify" /\ i' = i
      BY <1>5, <3>1 DEF ProgramHigh, CanProgram
    <3>3. mem'[i] = buf[i]
      BY <1>0, <2>1, <3>1, <3>2 DEF TypeOK, Word
    <3>4. \A a \in Range_ : a # i => mem'[a] = mem[a]
      BY <1>0, <1>3, <3>2 DEF TypeOK
    <3>5. WordState'
      BY <2>2, <3>2, <3>3 DEF WordState
    <3>6. Surroundings'
      BY <1>3, <2>2, <3>1, <3>2, <3>4 DEF Surroundings
    <3> QED
      BY <3>5, <3>6
  <2> QED
    BY <2>2, <2>3, <2>4
<1>6. CASE ProgramFault
  <2>1. /\ pc \in {"lo", "hi"} /\ pc' = "lock" /\ mem' = mem /\ i' = i
        /\ Range_' = Range_ /\ Fresh' = Fresh /\ buf' = buf /\ end' = end
    BY <1>6 DEF ProgramFault, call, Range_, Fresh
  <2>2. ASSUME Fresh PROVE (WordState /\ Surroundings)'
    <3>1. WordState /\ Surroundings
      BY <2>1, <2>2 DEF WInv
    <3> QED
      BY <2>1, <3>1 DEF WordState, Surroundings, Blank
  <2> QED
    BY <2>1, <2>2
<1>7. CASE Verify
  <2>1. pc = "verify" /\ i \in Range_ /\ i < end /\ mem' = mem
    BY <1>0, <1>3, <1>7 DEF Verify, Progress
  <2>2. Range_' = Range_ /\ Fresh' = Fresh /\ buf' = buf /\ end' = end
    BY <1>7 DEF Verify, call, Range_, Fresh
  <2>3. pc' # "erase"
    BY <1>7 DEF Verify, NextWord
  <2>4. ASSUME Fresh PROVE (WordState /\ Surroundings)'
    <3>1. WordState /\ Surroundings /\ mem[i] = buf[i]
      BY <2>1, <2>4 DEF WInv, WordState
    <3>2. i' = i + 1 /\ pc' = IF i + 1 = end THEN "lock" ELSE "lo"
      BY <1>7, <3>1 DEF Verify, NextWord
    <3>3. i \in Int /\ end \in Int /\ addr \in Int /\ addr <= i
      BY <1>0, <2>1, Sizes DEF TypeOK, Progress, Address
    <3>4. i + 1 # end => mem[i + 1] = Blank
      BY <2>1, <3>1, <3>3 DEF Surroundings, Range_
    <3>5. WordState'
      BY <2>1, <2>2, <3>2, <3>3, <3>4 DEF WordState
    <3>6. ASSUME NEW a \in Range_ PROVE /\ a < i' => mem'[a] = buf'[a]
                                        /\ a > i' => mem'[a] = Blank
      <4>1. a \in Int
        BY <3>3 DEF Range_
      <4>2. CASE a = i
        BY <2>1, <2>2, <3>1, <3>2, <3>3, <4>2
      <4>3. CASE a # i
        <5>1. (a < i + 1 => a < i) /\ (a > i + 1 => a > i)
          BY <3>3, <4>1, <4>3
        <5> QED
          BY <2>1, <2>2, <3>1, <3>2, <5>1 DEF Surroundings
      <4> QED
        BY <4>2, <4>3
    <3>7. Surroundings'
      BY <2>2, <3>6 DEF Surroundings, Blank
    <3> QED
      BY <3>5, <3>7
  <2> QED
    BY <2>2, <2>3, <2>4
<1>8. CASE ErasePage
  <2>1. /\ pc = "erase" /\ buf = BlankFlash /\ buf' = buf /\ end' = end
        /\ Range_' = Range_ /\ Fresh' = Fresh /\ pc' \in {"erase", "lock"}
    BY <1>0, <1>8 DEF ErasePage, call, Range_, Fresh, Progress
  <2>2. Fresh => StillBlank'
    BY <1>3, <1>8, <2>1 DEF WInv, StillBlank, ErasePage
  <2>3. (StillBlank => (WordState /\ Surroundings) \/ pc # "lock")'
    <3> SUFFICES ASSUME StillBlank', pc' = "lock" PROVE (WordState /\ Surroundings)'
      OBVIOUS
    <3>1. \A a \in Range_ : mem'[a] = Blank /\ buf'[a] = Blank
      BY <1>3, <2>1 DEF StillBlank, BlankFlash
    <3>2. i' < end' => i' \in Range_
      BY <1>0, <1>3, <1>8, <2>1, Sizes DEF ErasePage, TypeOK, Progress
    <3> QED
      BY <2>1, <3>1, <3>2 DEF WordState, Surroundings, Blank
  <2> QED
    BY <2>1, <2>2, <2>3
<1>9. CASE EraseFault
  <2>1. /\ pc = "erase" /\ pc' = "lock" /\ mem' = mem /\ i' = i /\ i \in Range_
        /\ buf = BlankFlash /\ buf' = buf /\ end' = end
        /\ Range_' = Range_ /\ Fresh' = Fresh
    BY <1>0, <1>3, <1>9 DEF EraseFault, call, Range_, Fresh, Progress
  <2>2. Fresh => (WordState /\ Surroundings)'
    <3> SUFFICES ASSUME Fresh PROVE (WordState /\ Surroundings)'
      OBVIOUS
    <3>1. \A a \in Range_ : mem[a] = Blank /\ buf[a] = Blank
      BY <1>3, <2>1 DEF WInv, StillBlank, BlankFlash
    <3> QED
      BY <2>1, <3>1 DEF WordState, Surroundings, Blank
  <2> QED
    BY <2>1, <2>2
<1>10. CASE Lock \/ PowerCut
  BY <1>10 DEF Lock, PowerCut, EndCall
<1>11. CASE UNCHANGED vars
  BY <1>11 DEF vars, WInv, WordState, Surroundings, StillBlank, Fresh, Range_
<1>12. ASSUME NEW a \in Address, NEW n \in 1..NumWords, Write(a, n) \/ Erase(a, n)
       PROVE  pc' = IF Write(a, n) THEN "lo" ELSE "erase"
  BY <1>12 DEF Write, Erase
<1> QED
  BY <1>1, <1>2, <1>4, <1>5, <1>6, <1>7, <1>8, <1>9, <1>10, <1>11, <1>12 DEF Next

(* A write to an erased range leaves a prefix of its data, whatever power  *)
(* cut or fault ends it.                                                   *)
THEOREM WritesArePrefixes == Spec => []FreshWriteIsPrefix
<1>1. Spec => []WInv
  BY WInvInitial, WInvStep, PTL DEF Spec
<1>2. WInv => FreshWriteIsPrefix
  <2> SUFFICES ASSUME WInv, InCall, Fresh, NEW a \in Range_
               PROVE  /\ a < i => mem[a] = buf[a]
                      /\ a > i => mem[a] = Blank
                      /\ (a = i /\ mem[a].hi # FF) => mem[a].lo = buf[a].lo
    BY DEF FreshWriteIsPrefix
  <2>1. WordState /\ Surroundings
    BY DEF WInv
  <2>2. a = i => i < end
    BY Sizes DEF WInv, TInv, TypeOK, Range_, Address
  <2> QED
    BY <2>1, <2>2 DEF WordState, Surroundings, InCall, Blank
<1> QED
  BY <1>1, <1>2, PTL

(* EF_OK from a write to an erased range means that the data is there.     *)
THEOREM WritesStore == Spec => []FreshWriteStores
<1>1. Spec => []WInv
  BY WInvInitial, WInvStep, PTL DEF Spec
<1>2. WInv => FreshWriteStores
  <2> SUFFICES ASSUME WInv, WriteDone, Fresh, NEW a \in Range_ PROVE mem[a] = buf[a]
    BY DEF FreshWriteStores
  <2>1. Surroundings
    BY DEF WInv, WriteDone, InCall
  <2>2. a < i
    BY Sizes DEF WInv, TInv, TypeOK, WriteDone, Range_, Address
  <2> QED
    BY <2>1, <2>2 DEF Surroundings
<1> QED
  BY <1>1, <1>2, PTL

-----------------------------------------------------------------------------
(* A write of what is there already has changed nothing and met no error,  *)
(* unless the controller failed.                                           *)
Rewriting ==
    /\ InCall /\ faults = 0 /\ buf # BlankFlash
    /\ \A a \in Range_ : before[a] = buf[a]
RInv == TInv /\ (Rewriting => result = "EF_OK" /\ mem = before)

LEMMA RInvInitial == Init => RInv
<1>1. Init => TInv
  BY TInvInitial
<1> QED
  BY <1>1 DEF Init, RInv, Rewriting, InCall

LEMMA RInvStep == RInv /\ [Next]_vars => RInv'
<1> SUFFICES ASSUME RInv, [Next]_vars, Rewriting'
             PROVE  result' = "EF_OK" /\ mem' = before'
  BY TInvStep DEF RInv
<1>0. TypeOK /\ Progress
  BY DEF RInv, TInv
<1>1. CASE \E a \in Address, n \in 1..NumWords : Write(a, n)
  BY <1>1 DEF Write
<1>2. CASE \E a \in Address, n \in 1..NumWords : Erase(a, n)
  BY <1>2 DEF Erase, Rewriting, InCall
<1>3. CASE ProgramFault \/ EraseFault
  <2>1. faults' = faults + 1 /\ faults \in Nat
    BY <1>0, <1>3, Sizes DEF ProgramFault, EraseFault, Fault, TypeOK
  <2> QED
    BY <2>1 DEF Rewriting
<1>4. CASE ErasePage
  BY <1>0, <1>4 DEF ErasePage, call, Progress, Rewriting
<1>5. CASE Lock \/ PowerCut
  BY <1>5 DEF Lock, PowerCut, EndCall, Rewriting, InCall
<1>6. CASE ProgramLow \/ ProgramHigh \/ Verify
  <2>1. /\ pc \in {"lo", "hi", "verify"}
        /\ addr' = addr /\ buf' = buf /\ end' = end /\ before' = before /\ faults' = faults
    BY <1>6 DEF ProgramLow, ProgramHigh, Verify, call
  <2>2. result = "EF_OK" /\ mem = before
    <3>1. Range_' = Range_
      BY <2>1 DEF Range_
    <3> QED
      BY <2>1, <3>1 DEF RInv, Rewriting, InCall
  <2>3. mem[i] = buf[i] /\ mem \in [Address -> Word] /\ i \in Address
    <3>1. i \in Range_ /\ i \in Address
      BY <1>0, <2>1, Sizes DEF TypeOK, Progress, Range_, Address
    <3>2. \A a \in Range_ : before[a] = buf[a]
      BY <2>1 DEF Rewriting, Range_
    <3> QED
      BY <1>0, <2>2, <3>1, <3>2 DEF TypeOK
  <2>4. CASE ProgramLow
    <3>1. [mem EXCEPT ![i].lo = buf[i].lo] = mem
      BY <2>3 DEF Word
    <3> QED
      BY <2>1, <2>2, <2>4, <3>1 DEF ProgramLow
  <2>5. CASE ProgramHigh
    <3>1. [mem EXCEPT ![i].hi = buf[i].hi] = mem
      BY <2>3 DEF Word
    <3> QED
      BY <2>1, <2>2, <2>5, <3>1 DEF ProgramHigh
  <2>6. CASE Verify
    BY <2>1, <2>2, <2>3, <2>6 DEF Verify
  <2> QED
    BY <1>6, <2>4, <2>5, <2>6
<1>7. CASE UNCHANGED vars
  BY <1>7 DEF vars, RInv, Rewriting, InCall, Range_
<1> QED
  BY <1>1, <1>2, <1>3, <1>4, <1>5, <1>6, <1>7 DEF Next

(* Writing again what is there succeeds and changes nothing, however the   *)
(* controller's refusals to program a half-word twice fall.                *)
THEOREM RewritesSucceed == Spec => []RewriteSucceeds
<1>1. RInv => RewriteSucceeds
  BY DEF RInv, RewriteSucceeds, Rewriting, InCall
<1> QED
  BY <1>1, RInvInitial, RInvStep, PTL DEF Spec
=============================================================================
