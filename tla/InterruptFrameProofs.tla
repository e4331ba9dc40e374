------------------------ MODULE InterruptFrameProofs ------------------------
(***************************************************************************)
(* Proofs about InterruptFrame, for every layout that begins as the code's *)
(* does, any number of registers and any depth of nesting: interrupted     *)
(* contexts get their registers and their stack pointer back.              *)
(***************************************************************************)
EXTENDS InterruptFrame, SequenceTheorems, TLAPS

Inv == TypeOK /\ FrameInv

-----------------------------------------------------------------------------
(* Contexts and addresses.                                                 *)

(* The elements of a sequence. *)
LEMMA SeqElements ==
  ASSUME NEW S, NEW q \in Seq(S)
  PROVE  /\ Len(q) \in Nat
         /\ \A n \in 1 .. Len(q) : q[n] \in S
  OBVIOUS

(* A prefix of a sequence. *)
LEMMA Prefix ==
  ASSUME NEW S, NEW q \in Seq(S), NEW m \in Nat, m <= Len(q)
  PROVE  /\ SubSeq(q, 1, m) \in Seq(S)
         /\ Len(SubSeq(q, 1, m)) = m
         /\ \A j \in 1 .. m : SubSeq(q, 1, m)[j] = q[j]
  <1>1. m \in Int /\ 1 \in Int /\ \A j \in 1 .. m : q[j] \in S
    BY SeqElements
  <1>2. /\ SubSeq(q, 1, m) \in Seq(S)
        /\ Len(SubSeq(q, 1, m)) = IF 1 <= m THEN m - 1 + 1 ELSE 0
        /\ \A j \in 1 .. m - 1 + 1 : SubSeq(q, 1, m)[j] = q[1 + j - 1]
    BY <1>1, SubSeqProperties
  <1> QED BY <1>2

(* Pushing and popping a context leaves the ones below alone. *)
LEMMA Push ==
  ASSUME NEW S, NEW q \in Seq(S), NEW e \in S
  PROVE  /\ Append(q, e) \in Seq(S) /\ Len(Append(q, e)) = Len(q) + 1
         /\ Append(q, e)[Len(q) + 1] = e
         /\ \A n \in 1 .. Len(q) : Append(q, e)[n] = q[n]
  BY AppendProperties

(* A stack without its last element.                                       *)
LEMMA Pop ==
  ASSUME NEW S, NEW q \in Seq(S), 0 < Len(q)
  PROVE  /\ SubSeq(q, 1, Len(q) - 1) \in Seq(S)
         /\ Len(SubSeq(q, 1, Len(q) - 1)) = Len(q) - 1
         /\ \A n \in 1 .. (Len(q) - 1) : SubSeq(q, 1, Len(q) - 1)[n] = q[n]
  <1>1. Len(q) - 1 \in Nat /\ Len(q) - 1 <= Len(q)
    BY SeqElements
  <1> QED BY <1>1, Prefix

(* The interrupted contexts are typed. *)
LEMMA ContextType ==
  ASSUME TypeOK
  PROVE  /\ Level \in Nat
         /\ \A n \in 1 .. Level : saved[n].reg \in [Reg -> Word] /\ saved[n].sp \in Word
  <1>1. Level \in Nat /\ \A n \in 1 .. Level : saved[n] \in [reg : [Reg -> Word], sp : Word, qc : Word]
    BY SeqElements DEF TypeOK, Level
  <1> QED BY <1>1

(* A slot of any context is an address, no lower than where the innermost  *)
(* frame ends.                                                             *)
LEMMA SlotAddress ==
  ASSUME Inv, NEW n \in 1 .. Level, NEW j \in Slot
  PROVE  /\ saved[n].sp - j \in Word
         /\ BelowFrame(saved[n].sp) \in Word
         /\ BelowFrame(saved[n].sp) <= saved[n].sp - j
         /\ saved[n].sp - j < saved[n].sp
         /\ BelowFrame(Context.sp) <= saved[n].sp - j
         /\ n < Level => Context.sp <= saved[n].sp - j
  <1>1. /\ Level \in Nat /\ 0 < Level /\ Level \in 1 .. Level
        /\ saved[n].sp \in Word /\ Context.sp \in Word
    BY ContextType DEF Inv, Context
  <1>2. /\ Frame <= saved[n].sp
        /\ n < Level => Context.sp <= BelowFrame(saved[n].sp)
    BY <1>1 DEF Inv, FrameInv, StackInv, Context
  <1>3. n = Level => Context.sp = saved[n].sp
    BY DEF Context
  <1>4. /\ saved[n].sp \in Nat /\ saved[n].sp <= Top /\ Context.sp \in Nat
        /\ j \in Nat /\ 1 <= j /\ j <= Frame /\ Frame \in Nat /\ Top \in Nat
    BY <1>1, LayoutAssumption, ValueAssumption DEF Word, Slot
  <1> QED BY <1>1, <1>2, <1>3, <1>4 DEF BelowFrame, Word

(* The slots of one context have different addresses. *)
LEMMA SlotInjective ==
  ASSUME NEW a \in Word, NEW i \in Slot, NEW j \in Slot, a - i = a - j
  PROVE  i = j
  BY LayoutAssumption, ValueAssumption DEF Word, Slot

(* Which slot a load reads. *)
LEMMA LoadingSlot ==
  ASSUME TypeOK, k \in Slot
  PROVE  Loading \in Slot
  BY LayoutAssumption DEF Loading, Slot

(* During an exit, the address of a slot is that of the context's frame.   *)
LEMMA LeaveAddress ==
  ASSUME Inv, Leaving
  PROVE  /\ Level \in 1 .. Level /\ FrameTop = Context.sp /\ FrameTop \in Word
         /\ \A j \in Slot : FrameTop - j \in Word
  <1>1. Level \in Nat /\ 0 < Level /\ sp = BelowFrame(Context.sp)
    BY ContextType DEF Inv, FrameInv, StackInv
  <1>2. Level \in 1 .. Level /\ Context.sp \in Word
    BY <1>1, ContextType DEF Inv, Context
  <1>3. FrameTop = Context.sp
    BY <1>1, <1>2, LayoutAssumption, ValueAssumption DEF FrameTop, BelowFrame, Word
  <1> QED BY <1>2, <1>3, SlotAddress DEF Context

(* The same during an entry. *)
LEMMA EnterAddress ==
  ASSUME Inv, Entering
  PROVE  /\ Level \in 1 .. Level /\ sp = Context.sp /\ BelowFrame(sp) \in Word
         /\ reg = Context.reg
         /\ \A j \in Slot : sp - j \in Word
  <1>1. Level \in Nat /\ 0 < Level /\ sp = Context.sp /\ reg = Context.reg
    BY ContextType DEF Inv, FrameInv, StackInv, EnterRestartable
  <1>2. 1 \in Slot /\ Level \in 1 .. Level
    BY <1>1, LayoutAssumption DEF Slot
  <1> QED BY <1>1, <1>2, SlotAddress DEF Context

-----------------------------------------------------------------------------
(* Types.                                                                  *)

(* The types hold initially.                                               *)
LEMMA TypeInit ==
  ASSUME Init
  PROVE  TypeOK
  <1>1. /\ reg \in [Reg -> Word] /\ sp \in Word /\ mapped \in SUBSET Word /\ 0 \in Word
        /\ mem \in [Word -> Word]
    BY ValueAssumption DEF Init, Word
  <1>2. k \in 1 .. (Slots + 2)
    BY LayoutAssumption DEF Init
  <1>3. saved \in Seq([reg : [Reg -> Word], sp : Word, qc : Word])
    BY EmptySeq DEF Init
  <1>4. Level <= MaxLevel
    BY ValueAssumption, EmptySeq DEF Init, Level
  <1> QED BY <1>1, <1>2, <1>3, <1>4 DEF Init, TypeOK

(* The trap handler, the entries and the exits. *)
LEMMA HelperTypeStep ==
  ASSUME Inv, Helper \/ HandleTrap(FaultAddress)
  PROVE  TypeOK'
  <1> USE DEF Inv, TypeOK
  <1>0. 0 \in Word /\ FaultCode \in Word /\ Slots \in Nat
    BY LayoutAssumption, ValueAssumption DEF Word
  <1>1. CASE HandleTrap(FaultAddress)
    <2>1. FaultAddress \in Word
      BY <1>1 DEF HandleTrap, FrameInv, StackInv
    <2> QED BY <1>1, <2>1 DEF HandleTrap, locals, Level
  <1>2. CASE Enter
    BY <1>0, <1>2 DEF Enter, Level
  <1>3. CASE StoreSlot
    <2>1. Stored(Layout[k]) \in Word
      BY <1>0 DEF Stored
    <2>2. mem' \in [Word -> Word] /\ k' \in 1 .. (Slots + 2)
      BY <1>0, <1>3, <2>1 DEF StoreSlot, Slot
    <2> QED BY <1>3, <2>2 DEF StoreSlot, Level
  <1>4. CASE StoreFault \/ LoadFault
    BY <1>0, <1>4 DEF StoreFault, LoadFault, FaultAt, locals, Level
  <1>5. CASE FinishEnter
    <2>1. BelowFrame(sp) \in Word
      BY <1>5, EnterAddress DEF FinishEnter, Entering
    <2>2. SetMie(qcval) \in Word
      BY ValueAssumption DEF SetMie, Word
    <2> QED BY <1>5, <2>1, <2>2 DEF FinishEnter, locals, Level
  <1>6. CASE Leave
    BY <1>0, <1>6 DEF Leave, Level
  <1>7. CASE LoadSlot
    <2>1. mem[FrameTop - Loading] \in Word
      BY <1>7, LeaveAddress, LoadingSlot DEF LoadSlot, Leaving
    <2>2. reg' \in [Reg -> Word] /\ cause' \in Word /\ qc' \in Word
      BY <1>7, <2>1 DEF LoadSlot
    <2>3. k' \in 1 .. (Slots + 2)
      BY <1>0, <1>7 DEF LoadSlot, NextLoad, Slot
    <2> QED BY <1>7, <2>2, <2>3 DEF LoadSlot, Level
  <1>8. CASE FinishLeave
    <2>1. FrameTop \in Word /\ Level \in 1 .. Level /\ Level \in Nat
      BY <1>8, LeaveAddress, ContextType DEF FinishLeave, Leaving
    <2>2. 0 < Len(saved) /\ Len(saved) \in Nat /\ MaxLevel \in Nat
      BY <2>1, ValueAssumption DEF Level
    <2> DEFINE S == [reg : [Reg -> Word], sp : Word, qc : Word]
    <2>3. saved \in Seq(S)
      OBVIOUS
    <2> HIDE DEF S
    <2>4. saved' \in Seq(S) /\ Len(saved') <= MaxLevel
      BY <1>8, <2>2, <2>3, Pop DEF FinishLeave, Level
    <2> QED BY <1>8, <2>1, <2>4 DEF FinishLeave, locals, Level, S
  <1> QED BY <1>1, <1>2, <1>3, <1>4, <1>5, <1>6, <1>7, <1>8 DEF Helper

(* Interrupts and what the handlers do. *)
LEMMA GuestTypeStep ==
  ASSUME Inv, Guest \/ UNCHANGED vars
  PROVE  TypeOK'
  <1> USE DEF Inv, TypeOK
  <1>1. CASE Interrupt
    <2> DEFINE S == [reg : [Reg -> Word], sp : Word, qc : Word]
               e == [reg |-> reg, sp |-> sp, qc |-> qc]
    <2>0. reg \in [Reg -> Word] /\ sp \in Word /\ qc \in Word
      OBVIOUS
    <2>1. saved \in Seq(S) /\ e \in S
      BY <2>0
    <2>2. saved' = Append(saved, e) /\ Len(saved) \in Nat /\ MaxLevel \in Nat /\ Len(saved) < MaxLevel
      BY <1>1, ContextType, ValueAssumption DEF Interrupt, Level
    <2> HIDE DEF S, e
    <2>3. saved' \in Seq(S) /\ Len(saved') = Len(saved) + 1
      BY <2>1, <2>2, Push
    <2>5. Level' <= MaxLevel
      BY <2>2, <2>3 DEF Level
    <2>4. mcause' \in Word
      <3>1. \A c \in CauseCode : c \in 0 .. (MieBit - 1)
        BY ValueAssumption
      <3>2. MieBit \in Nat /\ MieBit <= Top /\ Top \in Nat
        BY ValueAssumption
      <3>3. \A c \in CauseCode : c \in Word
        BY <3>1, <3>2 DEF Word
      <3> QED BY <1>1, <3>3 DEF Interrupt
    <2> QED BY <1>1, <2>3, <2>4, <2>5 DEF Interrupt, locals, S
  <1>2. CASE HandlerComputes
    <2>1. reg' \in [Reg -> Word]
      BY <1>2, ValueAssumption DEF HandlerComputes
    <2> QED BY <1>2, <2>1 DEF HandlerComputes, locals, Level
  <1>3. CASE HandlerPushes
    <2>1. sp' \in Word
      <3>1. sp' = sp - 1 /\ 0 < sp /\ sp \in Word
        BY <1>3 DEF HandlerPushes
      <3> QED BY <3>1, ValueAssumption DEF Word
    <2>2. mem' \in [Word -> Word]
      BY <1>3, ValueAssumption DEF HandlerPushes
    <2> QED BY <1>3, <2>1, <2>2 DEF HandlerPushes, locals, Level
  <1>4. CASE HandlerPops
    <2>1. Level \in 1 .. Level
      BY <1>4, ContextType DEF HandlerPops
    <2>2. BelowFrame(Context.sp) \in Word
      <3>1. 1 \in Slot
        BY LayoutAssumption DEF Slot
      <3> QED BY <2>1, <3>1, SlotAddress DEF Context
    <2> QED BY <1>4, <2>2 DEF HandlerPops, locals, Level
  <1>5. CASE EnableInterrupts
    BY <1>5 DEF EnableInterrupts, locals, Level
  <1>6. CASE UNCHANGED vars
    BY <1>6 DEF vars, locals, Level
  <1> QED BY <1>1, <1>2, <1>3, <1>4, <1>5, <1>6 DEF Guest

-----------------------------------------------------------------------------
(* Steps that move neither registers nor memory nor contexts.              *)

(* The steps of entry and exit that complete neither keep the frames.      *)
LEMMA StageStep ==
  ASSUME Inv,
         \/ Enter \/ Leave \/ StoreFault \/ LoadFault \/ HandleTrap(FaultAddress)
         \/ EnableInterrupts \/ UNCHANGED vars
  PROVE  FrameInv'
  <1>1. UNCHANGED <<reg, sp, mem, saved>>
    BY DEF Enter, Leave, StoreFault, LoadFault, HandleTrap, FaultAt, EnableInterrupts, vars
  <1>2. Level' = Level /\ Context' = Context
    BY <1>1 DEF Level, Context
  <1>3. TypeOK
    BY DEF Inv
  <1>4. Entering' <=> Entering
    BY <1>3 DEF Enter, Leave, StoreFault, LoadFault, HandleTrap, FaultAt, EnableInterrupts, vars,
                Entering, TypeOK
  <1>5. Leaving' => 0 < Level /\ sp = BelowFrame(Context.sp)
    <2>1. CASE Leaving
      BY <2>1 DEF Inv, FrameInv, StackInv
    <2>2. CASE ~ Leaving
      BY <2>2, <1>3 DEF Enter, Leave, StoreFault, LoadFault, HandleTrap, FaultAt, EnableInterrupts,
                        vars, Leaving, TypeOK
    <2> QED BY <2>1, <2>2
  <1>6. stage' = "run" => stage = "run"
    BY <1>3 DEF Enter, Leave, StoreFault, LoadFault, HandleTrap, FaultAt, EnableInterrupts, vars, TypeOK
  <1>7. stage' = "trapped" => FaultAddress' \in Word
    <2>1. CASE StoreFault
      <3>1. sp - k \in Word
        BY <2>1, EnterAddress DEF StoreFault, Entering
      <3> QED BY <2>1, <3>1 DEF StoreFault, FaultAt, FaultAddress, locals
    <2>2. CASE LoadFault
      <3>1. FrameTop - Loading \in Word
        BY <2>2, <1>3, LeaveAddress, LoadingSlot DEF LoadFault, Leaving
      <3> QED BY <2>2, <3>1 DEF LoadFault, FaultAt, FaultAddress, FrameTop, Loading, locals
    <2>3. CASE UNCHANGED vars
      BY <2>3 DEF Inv, FrameInv, StackInv, FaultAddress, FrameTop, Loading, vars, locals
    <2>4. CASE Enter \/ Leave \/ HandleTrap(FaultAddress) \/ EnableInterrupts
      BY <2>4, <1>3 DEF Enter, Leave, HandleTrap, EnableInterrupts, TypeOK
    <2> QED BY <2>1, <2>2, <2>3, <2>4
  <1>8. StackInv'
    BY <1>1, <1>2, <1>4, <1>5, <1>6, <1>7 DEF Inv, FrameInv, StackInv, BelowFrame
  <1>9. StoredInv'
    <2>1. CASE Enter
      BY <2>1 DEF Enter, StoredInv, Slot
    <2>2. CASE UNCHANGED vars
      BY <2>2 DEF Inv, FrameInv, StoredInv, vars, locals
    <2>3. CASE stage' # "enter"
      BY <2>3 DEF StoredInv
    <2> QED BY <2>1, <2>2, <2>3, <1>3
            DEF Leave, StoreFault, LoadFault, HandleTrap, FaultAt, EnableInterrupts, TypeOK
  <1>10. LoadedInv'
    <2>1. CASE Leave
      BY <2>1 DEF Leave, LoadedInv, Read, Slot
    <2>2. CASE UNCHANGED vars
      BY <2>2 DEF Inv, FrameInv, LoadedInv, Read, FrameTop, vars, locals
    <2>3. CASE stage' # "leave"
      BY <2>3 DEF LoadedInv
    <2> QED BY <2>1, <2>2, <2>3, <1>3
            DEF Enter, StoreFault, LoadFault, HandleTrap, FaultAt, EnableInterrupts, TypeOK
  <1>11. FramesIntact' /\ EnterRestartable'
    BY <1>1, <1>2, <1>4 DEF Inv, FrameInv, FramesIntact, EnterRestartable, Complete
  <1> QED BY <1>8, <1>9, <1>10, <1>11 DEF FrameInv

-----------------------------------------------------------------------------
(* Interrupts and what the handlers do.                                    *)

(* A new context is below all the frames there are. *)
LEMMA InterruptStep ==
  ASSUME Inv, Interrupt
  PROVE  FrameInv'
  <1> DEFINE S == [reg : [Reg -> Word], sp : Word, qc : Word]
             e == [reg |-> reg, sp |-> sp, qc |-> qc]
  <1>1. stage = "run" /\ stage' = "vector" /\ UNCHANGED <<reg, sp, mem>> /\ Frame <= sp
    BY DEF Interrupt
  <1>2. reg \in [Reg -> Word] /\ sp \in Word /\ qc \in Word /\ saved \in Seq(S)
    BY DEF Inv, TypeOK
  <1>3. e \in S /\ e.reg = reg /\ e.sp = sp
    BY <1>2
  <1>4. saved' = Append(saved, e)
    BY DEF Interrupt
  <1>5. Level \in Nat
    BY ContextType DEF Inv
  <1> HIDE DEF S, e
  <1>6. Level' = Level + 1 /\ saved'[Level + 1] = e /\ \A n \in 1 .. Level : saved'[n] = saved[n]
    BY <1>2, <1>3, <1>4, Push DEF Level
  <1>7. Context' = e
    BY <1>6 DEF Context
  <1>8. Complete' = Level /\ Complete = Level
    BY <1>1, <1>5, <1>6 DEF Complete, Entering
  <1>9. \A n \in 1 .. Level : sp <= BelowFrame(saved[n].sp)
    <2>1. SUFFICES ASSUME NEW n \in 1 .. Level
                   PROVE  sp <= BelowFrame(saved[n].sp)
      OBVIOUS
    <2>2. Level \in 1 .. Level /\ 0 < Level
      BY <1>5
    <2>3. Context.sp \in Word /\ saved[n].sp \in Word
      BY <2>2, ContextType DEF Inv, Context
    <2>4. sp <= BelowFrame(Context.sp)
      BY <1>1, <2>2 DEF Inv, FrameInv, StackInv
    <2>5. CASE n = Level
      BY <2>4, <2>5 DEF Context
    <2>6. CASE n # Level
      <3>1. Context.sp <= BelowFrame(saved[n].sp)
        BY <2>2, <2>6, <1>5 DEF Inv, FrameInv, StackInv, Context
      <3> QED BY <1>2, <2>3, <2>4, <3>1, LayoutAssumption, ValueAssumption DEF BelowFrame, Word
    <2> QED BY <2>5, <2>6
  <1>10. StackInv'
    <2>1. \A n \in 1 .. Level' : Frame <= saved'[n].sp
      BY <1>1, <1>3, <1>5, <1>6 DEF Inv, FrameInv, StackInv
    <2>2. \A m, n \in 1 .. Level' : m < n => saved'[n].sp <= BelowFrame(saved'[m].sp)
      <3>1. SUFFICES ASSUME NEW m \in 1 .. (Level + 1), NEW n \in 1 .. (Level + 1), m < n
                     PROVE  saved'[n].sp <= BelowFrame(saved'[m].sp)
        BY <1>6
      <3>2. m \in 1 .. Level
        BY <3>1, <1>5
      <3>3. CASE n = Level + 1
        BY <3>2, <3>3, <1>3, <1>6, <1>9
      <3>4. CASE n # Level + 1
        <4>1. n \in 1 .. Level
          BY <3>4, <1>5
        <4> QED BY <3>1, <3>2, <4>1, <1>6 DEF Inv, FrameInv, StackInv
      <3> QED BY <3>3, <3>4
    <2>3. 0 < Level' /\ ~ Leaving' /\ stage' # "run" /\ stage' # "trapped"
      BY <1>1, <1>5, <1>6 DEF Leaving
    <2> QED BY <2>1, <2>2, <2>3, <1>3, <1>7, <1>1 DEF StackInv, BelowFrame
  <1>11. StoredInv' /\ LoadedInv'
    BY <1>1 DEF StoredInv, LoadedInv
  <1>12. FramesIntact'
    BY <1>1, <1>6, <1>8 DEF Inv, FrameInv, FramesIntact
  <1>13. EnterRestartable'
    BY <1>1, <1>3, <1>7 DEF EnterRestartable
  <1> QED BY <1>10, <1>11, <1>12, <1>13 DEF FrameInv

(* A handler writes registers, and memory below its frame. *)
LEMMA HandlerStep ==
  ASSUME Inv, HandlerComputes \/ HandlerPushes \/ HandlerPops
  PROVE  FrameInv'
  <1>1. stage = "run" /\ UNCHANGED <<stage, saved, k, resume>> /\ 0 < Level
    BY DEF HandlerComputes, HandlerPushes, HandlerPops, locals
  <1>2. Level' = Level /\ Context' = Context /\ Complete' = Level /\ Complete = Level
        /\ ~ Entering' /\ ~ Leaving' /\ ~ Entering
    BY <1>1 DEF Level, Context, Complete, Entering, Leaving
  <1>3. Level \in 1 .. Level /\ Context.sp \in Word /\ BelowFrame(Context.sp) \in Word
    <2>1. Level \in 1 .. Level
      BY <1>1, ContextType DEF Inv
    <2>2. 1 \in Slot
      BY LayoutAssumption DEF Slot
    <2> QED BY <2>1, <2>2, SlotAddress, ContextType DEF Context, Inv
  <1>4. sp' <= BelowFrame(Context.sp)
    <2>1. CASE HandlerComputes
      BY <2>1, <1>1 DEF HandlerComputes, Inv, FrameInv, StackInv
    <2>2. CASE HandlerPushes
      <3>1. sp' = sp - 1 /\ sp = BelowFrame(Context.sp)
        BY <2>2 DEF HandlerPushes
      <3> QED BY <3>1, <1>3, ValueAssumption DEF Word
    <2>3. CASE HandlerPops
      <3>1. sp' = BelowFrame(Context.sp)
        BY <2>3 DEF HandlerPops
      <3> QED BY <3>1, <1>3, ValueAssumption DEF Word
    <2> QED BY <2>1, <2>2, <2>3
  <1>5. StackInv'
    BY <1>1, <1>2, <1>4 DEF Inv, FrameInv, StackInv, BelowFrame
  <1>6. StoredInv' /\ LoadedInv' /\ EnterRestartable'
    BY <1>1, <1>2 DEF StoredInv, LoadedInv, EnterRestartable
  <1>7. \A n \in 1 .. Level : \A j \in Slot : mem'[saved[n].sp - j] = mem[saved[n].sp - j]
    <2>1. CASE HandlerComputes \/ HandlerPops
      BY <2>1 DEF HandlerComputes, HandlerPops
    <2>2. CASE HandlerPushes
      <3>1. SUFFICES ASSUME NEW n \in 1 .. Level, NEW j \in Slot
                     PROVE  mem'[saved[n].sp - j] = mem[saved[n].sp - j]
        OBVIOUS
      <3> DEFINE a == saved[n].sp - j
      <3>2. a \in Word /\ sp <= a /\ sp \in Word
        BY <2>2, SlotAddress DEF HandlerPushes, Inv, TypeOK
      <3> HIDE DEF a
      <3>3. sp - 1 # a
        BY <3>2, ValueAssumption DEF Word
      <3>5. mem'[a] = mem[a]
        BY <2>2, <3>2, <3>3 DEF HandlerPushes, Inv, TypeOK
      <3> QED BY <3>5 DEF a
    <2> QED BY <2>1, <2>2
  <1>8. FramesIntact'
    BY <1>1, <1>2, <1>7 DEF Inv, FrameInv, FramesIntact
  <1> QED BY <1>5, <1>6, <1>8 DEF FrameInv

-----------------------------------------------------------------------------
(* The accesses of an entry and of an exit.                                *)

(* A frame under way is below all the frames that are complete. *)
LEMMA StoreStep ==
  ASSUME Inv, StoreSlot
  PROVE  FrameInv'
  <1>1. /\ stage = "enter" /\ k \in Slot /\ Entering /\ TypeOK
        /\ UNCHANGED <<reg, sp, stage, resume, saved>>
        /\ k' = k + 1
        /\ mem' = [mem EXCEPT ![sp - k] = Stored(Layout[k])]
    BY DEF StoreSlot, Entering, Inv
  <1>2. Level' = Level /\ Context' = Context /\ (Entering' <=> Entering) /\ ~ Leaving'
    BY <1>1 DEF Level, Context, Entering, Leaving
  <1>3. Level \in 1 .. Level /\ sp = Context.sp /\ sp - k \in Word
    BY <1>1, EnterAddress
  <1>4. StackInv'
    BY <1>1, <1>2 DEF Inv, FrameInv, StackInv, BelowFrame
  <1>5. StoredInv'
    <2>1. 1 < k /\ k \in Nat
      BY <1>1, LayoutAssumption DEF Inv, FrameInv, StoredInv, Slot
    <2>2. ASSUME NEW j \in Slot, 1 < j, j < k + 1, Layout[j] \in Reg
          PROVE  mem'[sp - j] = reg[Layout[j]]
      <3>1. CASE j = k
        BY <1>1, <1>3, <2>2, <3>1 DEF TypeOK, Stored
      <3>2. CASE j # k
        <4>1. j < k
          BY <2>1, <2>2, <3>2, LayoutAssumption DEF Slot
        <4>2. sp - j # sp - k
          BY <1>1, <3>2, SlotInjective DEF TypeOK
        <4>3. mem[sp - j] = reg[Layout[j]]
          BY <1>1, <2>2, <4>1 DEF Inv, FrameInv, StoredInv
        <4>4. sp - j \in Word
          BY <1>1, EnterAddress
        <4> QED BY <1>1, <4>2, <4>3, <4>4 DEF TypeOK
      <3> QED BY <3>1, <3>2
    <2> QED BY <1>1, <2>1, <2>2 DEF StoredInv
  <1>6. FramesIntact'
    <2>1. ASSUME NEW n \in 1 .. Complete, NEW j \in Slot
          PROVE  mem'[saved[n].sp - j] = mem[saved[n].sp - j]
      <3>1. n \in 1 .. Level /\ n < Level
        BY <1>1, <1>3 DEF Complete
      <3> DEFINE a == saved[n].sp - j
      <3>2. a \in Word /\ Context.sp <= a
        BY <3>1, SlotAddress
      <3> HIDE DEF a
      <3>3. a # sp - k
        <4>1. sp \in Nat /\ a \in Nat /\ k \in Nat /\ 1 <= k
          BY <1>1, <3>2, LayoutAssumption, ValueAssumption DEF Word, Slot, TypeOK
        <4>2. sp <= a
          BY <1>3, <3>2
        <4> QED BY <4>1, <4>2
      <3>4. mem'[a] = mem[a]
        BY <1>1, <3>2, <3>3 DEF TypeOK
      <3> QED BY <3>4 DEF a
    <2>2. Complete' = Complete
      BY <1>2 DEF Complete
    <2> QED BY <1>1, <2>1, <2>2 DEF Inv, FrameInv, FramesIntact
  <1>7. LoadedInv' /\ EnterRestartable'
    BY <1>1, <1>2 DEF LoadedInv, Inv, FrameInv, EnterRestartable
  <1> QED BY <1>4, <1>5, <1>6, <1>7 DEF FrameInv

(* All the slots are filled: the frame of the context is complete. *)
LEMMA FinishEnterStep ==
  ASSUME Inv, FinishEnter
  PROVE  FrameInv'
  <1>1. /\ stage = "enter" /\ k \notin Slot /\ Entering /\ TypeOK
        /\ stage' = "run" /\ sp' = BelowFrame(sp) /\ UNCHANGED <<mem, saved>>
    BY DEF FinishEnter, Entering, Inv
  <1>2. Level' = Level /\ Context' = Context /\ ~ Entering' /\ ~ Leaving'
    BY <1>1 DEF Level, Context, Entering, Leaving
  <1>3. /\ Level \in 1 .. Level /\ Level \in Nat /\ sp = Context.sp /\ reg = Context.reg
        /\ BelowFrame(sp) \in Word
    BY <1>1, EnterAddress, ContextType
  <1>4. StackInv'
    BY <1>1, <1>2, <1>3, ValueAssumption DEF Inv, FrameInv, StackInv, BelowFrame, Word
  <1>5. FramesIntact'
    <2>1. SUFFICES ASSUME NEW n \in 1 .. Level, NEW j \in Slot, Layout[j] \in Reg
                   PROVE  mem[saved[n].sp - j] = saved[n].reg[Layout[j]]
      BY <1>1, <1>2 DEF FramesIntact, Complete
    <2>2. CASE n = Level
      <3>1. 1 < j /\ j < k
        BY <1>1, <2>1, LayoutAssumption DEF Slot, TypeOK
      <3> QED BY <1>1, <1>3, <2>1, <2>2, <3>1 DEF Inv, FrameInv, StoredInv, Context
    <2>3. CASE n # Level
      <3>1. n \in 1 .. Complete
        BY <1>1, <1>3, <2>3 DEF Complete
      <3> QED BY <2>1, <3>1 DEF Inv, FrameInv, FramesIntact
    <2> QED BY <2>2, <2>3
  <1>6. StoredInv' /\ LoadedInv' /\ EnterRestartable'
    BY <1>1, <1>2 DEF StoredInv, LoadedInv, EnterRestartable
  <1> QED BY <1>4, <1>5, <1>6 DEF FrameInv

(* What has been read stays in its register: each register has one slot. *)
LEMMA LoadStep ==
  ASSUME Inv, LoadSlot
  PROVE  FrameInv'
  <1>1. /\ stage = "leave" /\ k \in Slot /\ Leaving /\ ~ Entering /\ TypeOK /\ NextLoad
        /\ UNCHANGED <<sp, mem, stage, resume, saved>>
        /\ reg' = IF Layout[Loading] \in Reg
                  THEN [reg EXCEPT ![Layout[Loading]] = mem[FrameTop - Loading]] ELSE reg
    BY DEF LoadSlot, Leaving, Entering, Inv
  <1>2. Level' = Level /\ Context' = Context /\ ~ Entering' /\ Leaving' /\ FrameTop' = FrameTop
    BY <1>1 DEF Level, Context, Entering, Leaving, FrameTop
  <1>3. Loading \in Slot
    BY <1>1, LoadingSlot
  <1>4. StackInv'
    BY <1>1, <1>2 DEF Inv, FrameInv, StackInv, BelowFrame
  <1>5. LoadedInv'
    <2>1. SUFFICES ASSUME NEW j \in Slot, Read(j)', Layout[j] \in Reg
                   PROVE  reg'[Layout[j]] = mem[FrameTop - j]
      BY <1>1, <1>2 DEF LoadedInv
    <2>2. CASE j = Loading
      BY <1>1, <2>1, <2>2 DEF TypeOK
    <2>3. CASE j # Loading
      <3>1. Layout[j] # Layout[Loading] /\ Layout[j] # Zero
        BY <1>3, <2>1, <2>3, LayoutAssumption
      <3>2. Read(j)
        <4>1. j \in Nat /\ k \in Nat /\ (k' = k + 1 \/ (k' = k + 2 /\ Layout[k + 1] = Zero))
          BY <1>1, LayoutAssumption DEF NextLoad, Slot
        <4>2. /\ Layout[1] \notin Reg /\ Layout[3] \notin Reg
              /\ Layout[2] # Zero /\ Layout[3] # Zero
          BY LayoutAssumption DEF Reg
        <4>3. j # 1 /\ j # 3
          BY <2>1, <4>2
        <4>4. j # k + 1 \/ k' = k + 1
          BY <3>1, <4>1
        <4> QED BY <2>1, <2>3, <4>1, <4>2, <4>3, <4>4 DEF Read, Loading
      <3>3. reg[Layout[j]] = mem[FrameTop - j]
        BY <1>1, <2>1, <3>2 DEF Inv, FrameInv, LoadedInv
      <3> QED BY <1>1, <2>1, <3>1, <3>3 DEF TypeOK
    <2> QED BY <2>2, <2>3
  <1>6. FramesIntact'
    BY <1>1, <1>2 DEF Inv, FrameInv, FramesIntact, Complete
  <1>7. StoredInv' /\ EnterRestartable'
    BY <1>1, <1>2 DEF StoredInv, EnterRestartable
  <1> QED BY <1>4, <1>5, <1>6, <1>7 DEF FrameInv

(* When the last slot has been read, the context's registers are back. *)
LEMMA Restored ==
  ASSUME Inv, FinishLeave
  PROVE  reg' = Context.reg /\ sp' = Context.sp
  <1>1. /\ stage = "leave" /\ k \notin Slot /\ Leaving /\ ~ Entering /\ TypeOK
        /\ reg' = reg /\ sp' = FrameTop
    BY DEF FinishLeave, Leaving, Entering, Inv
  <1>2. Level \in 1 .. Level /\ FrameTop = Context.sp
    BY <1>1, LeaveAddress
  <1>3. Context.reg \in [Reg -> Word] /\ reg \in [Reg -> Word]
    BY <1>1, <1>2, ContextType DEF Context, TypeOK
  <1>4. ASSUME NEW r \in Reg
        PROVE  reg[r] = Context.reg[r]
    <2>1. PICK j \in Slot : Layout[j] = r
      BY LayoutAssumption
    <2>2. Read(j)
      BY <1>1, LayoutAssumption DEF Read, Slot, TypeOK
    <2>3. reg[r] = mem[FrameTop - j]
      BY <1>1, <2>1, <2>2 DEF Inv, FrameInv, LoadedInv
    <2>4. mem[Context.sp - j] = Context.reg[r]
      BY <1>1, <1>2, <2>1 DEF Inv, FrameInv, FramesIntact, Complete, Context
    <2> QED BY <1>2, <2>3, <2>4
  <1> QED BY <1>1, <1>2, <1>3, <1>4

(* Completing an exit keeps the frames.                                    *)
LEMMA FinishLeaveStep ==
  ASSUME Inv, FinishLeave
  PROVE  FrameInv'
  <1> DEFINE S == [reg : [Reg -> Word], sp : Word, qc : Word]
  <1>1. /\ stage = "leave" /\ Leaving /\ ~ Entering /\ saved \in Seq(S)
        /\ stage' = "run" /\ UNCHANGED mem
        /\ saved' = SubSeq(saved, 1, Len(saved) - 1)
    BY DEF FinishLeave, Leaving, Entering, Inv, TypeOK, Level
  <1>2. Level \in Nat /\ 0 < Level
    BY <1>1, LeaveAddress, ContextType DEF Inv
  <1> HIDE DEF S
  <1>3. Level' = Level - 1 /\ \A n \in 1 .. (Level - 1) : saved'[n] = saved[n]
    BY <1>1, <1>2, Pop DEF Level
  <1>4. ~ Entering' /\ ~ Leaving' /\ Complete' = Level - 1 /\ Complete = Level
    BY <1>1, <1>3 DEF Complete, Entering, Leaving
  <1>5. StackInv'
    <2>1. \A n \in 1 .. Level' : n \in 1 .. Level /\ saved'[n] = saved[n]
      BY <1>2, <1>3
    <2>2. ASSUME 0 < Level'
          PROVE  (sp <= BelowFrame(Context.sp))'
      <3>2. Level - 1 \in 1 .. Level /\ Level \in 1 .. Level /\ Level - 1 < Level
            /\ Level - 1 \in 1 .. (Level - 1)
        BY <2>2, <1>2, <1>3
      <3>3. saved[Level].sp <= BelowFrame(saved[Level - 1].sp)
        BY <3>2 DEF Inv, FrameInv, StackInv
      <3>4. Context' = saved[Level - 1]
        BY <1>3, <3>2 DEF Context
      <3> QED BY <3>3, <3>4, Restored DEF Context, BelowFrame
    <2>3. \A n \in 1 .. Level' : Frame <= saved'[n].sp
      BY <2>1 DEF Inv, FrameInv, StackInv
    <2>4. \A m, n \in 1 .. Level' : m < n => saved'[n].sp <= BelowFrame(saved'[m].sp)
      BY <2>1 DEF Inv, FrameInv, StackInv
    <2>5. stage' # "trapped"
      BY <1>1
    <2>6. (\A n \in 1 .. Level : Frame <= saved[n].sp)'
      BY <2>3
    <2>7. (\A m, n \in 1 .. Level : m < n => saved[n].sp <= BelowFrame(saved[m].sp))'
      BY <2>4 DEF BelowFrame
    <2>8. (stage = "run" /\ 0 < Level => sp <= BelowFrame(Context.sp))'
      BY <2>2
    <2> QED BY <1>4, <2>5, <2>6, <2>7, <2>8 DEF StackInv
  <1>6. FramesIntact'
    <2>1. \A n \in 1 .. Complete' : n \in 1 .. Complete /\ saved'[n] = saved[n]
      BY <1>2, <1>3, <1>4
    <2>2. FramesIntact
      BY DEF Inv, FrameInv
    <2>3. \A n \in 1 .. Complete' : \A j \in Slot :
             Layout[j] \in Reg => mem[saved'[n].sp - j] = saved'[n].reg[Layout[j]]
      <3>1. SUFFICES ASSUME NEW n \in 1 .. Complete', NEW j \in Slot, Layout[j] \in Reg
                     PROVE  mem[saved'[n].sp - j] = saved'[n].reg[Layout[j]]
        OBVIOUS
      <3>2. mem[saved[n].sp - j] = saved[n].reg[Layout[j]]
        BY <2>1, <2>2, <3>1 DEF FramesIntact
      <3> QED BY <2>1, <3>2
    <2> QED BY <1>1, <2>3 DEF FramesIntact
  <1>7. StoredInv' /\ LoadedInv' /\ EnterRestartable'
    BY <1>1, <1>4 DEF StoredInv, LoadedInv, EnterRestartable
  <1> QED BY <1>5, <1>6, <1>7 DEF FrameInv

-----------------------------------------------------------------------------
(* Types and invariant hold initially.                                     *)
LEMMA InvInit ==
  ASSUME Init
  PROVE  Inv
  <1>1. TypeOK
    BY TypeInit
  <1>2. stage = "run" /\ Level = 0 /\ ~ Entering /\ ~ Leaving /\ Complete = 0
    BY EmptySeq DEF Init, Level, Entering, Leaving, Complete
  <1> QED BY <1>1, <1>2
          DEF Inv, FrameInv, StackInv, StoredInv, LoadedInv, FramesIntact, EnterRestartable

(* Every step keeps types and invariant.                                   *)
LEMMA InvStep ==
  ASSUME Inv, [Next]_vars
  PROVE  Inv'
  <1>1. TypeOK'
    BY HelperTypeStep, GuestTypeStep DEF Next
  <1>2. FrameInv'
    BY StageStep, InterruptStep, HandlerStep, StoreStep, FinishEnterStep, LoadStep,
       FinishLeaveStep DEF Next, Helper, Guest
  <1> QED BY <1>1, <1>2 DEF Inv

(* The frames lie below each other, are filled before the entry moves the  *)
(* stack pointer, and are read back while it still points at them.         *)
THEOREM FrameInvariant == Spec => [](TypeOK /\ FrameInv)
  <1>1. Init => Inv
    BY InvInit
  <1>2. Inv /\ [Next]_vars => Inv'
    BY InvStep
  <1>3. Inv => TypeOK /\ FrameInv
    BY DEF Inv
  <1> QED BY <1>1, <1>2, <1>3, PTL DEF Spec

(* Entries, exits, faults and handlers keep the registers, the memory and   *)
(* the stack of contexts within the ranges the helpers index them with.     *)
THEOREM TypeCorrect == Spec => []TypeOK
  <1> QED BY FrameInvariant, PTL

(* The frame of an interrupted context is never overwritten. *)
THEOREM FramesIntactAlways == Spec => []FramesIntact
  <1>1. FrameInv => FramesIntact
    BY DEF FrameInv
  <1> QED BY <1>1, FrameInvariant, PTL

(* An entry that faults has changed no register. *)
THEOREM EnterRestartableAlways == Spec => []EnterRestartable
  <1>1. FrameInv => EnterRestartable
    BY DEF FrameInv
  <1> QED BY <1>1, FrameInvariant, PTL

(* No step but the end of an exit forgets a context. *)
LEMMA InterruptLevel ==
  ASSUME Inv, Interrupt
  PROVE  Level' = Level + 1
  <1> DEFINE S == [reg : [Reg -> Word], sp : Word, qc : Word]
             e == [reg |-> reg, sp |-> sp, qc |-> qc]
  <1>1. reg \in [Reg -> Word] /\ sp \in Word /\ qc \in Word /\ saved \in Seq(S)
    BY DEF Inv, TypeOK
  <1>2. e \in S /\ saved' = Append(saved, e)
    BY <1>1 DEF Interrupt
  <1> HIDE DEF S, e
  <1> QED BY <1>1, <1>2, Push DEF Level

(* A step that leaves a level restores its registers and its stack         *)
(* pointer.                                                                *)
LEMMA LeaveStep ==
  ASSUME Inv, [Next]_vars, Level' < Level
  PROVE  reg' = Context.reg /\ sp' = Context.sp
  <1>1. CASE FinishLeave
    BY <1>1, Restored
  <1>2. Level \in Nat
    BY ContextType DEF Inv
  <1>3. CASE Interrupt
    BY <1>2, <1>3, InterruptLevel
  <1>4. CASE UNCHANGED saved
    BY <1>2, <1>4 DEF Level
  <1> QED BY <1>1, <1>3, <1>4
          DEF Next, Helper, Guest, Enter, StoreSlot, StoreFault, FinishEnter, Leave, LoadSlot,
              LoadFault, HandleTrap, FaultAt, EnableInterrupts, HandlerComputes, HandlerPushes,
              HandlerPops, vars

(* Every exit gives the interrupted context its registers and its stack    *)
(* pointer back.                                                           *)
THEOREM LeaveRestoresAlways == Spec => LeaveRestores
  <1>1. Inv /\ [Next]_vars => [Level' < Level => reg' = Context.reg /\ sp' = Context.sp]_vars
    BY LeaveStep
  <1>2. Init => Inv
    BY InvInit
  <1>3. Inv /\ [Next]_vars => Inv'
    BY InvStep
  <1> QED BY <1>1, <1>2, <1>3, PTL DEF Spec, LeaveRestores
=============================================================================
