--------------------------- MODULE Display_proofs ---------------------------
(***************************************************************************)
(* Proofs about LcdUpdate for every number of instances of thread1, and    *)
(* about the table that configures the same panel (MipiTable).             *)
(***************************************************************************)
EXTENDS LcdUpdate, MipiTable, SequenceTheorems, TLAPS

USE ClientAssumption, PixelAssumption

\* The driver is initialised in a state of the invariant.
LEMMA InitIInv == Init => IInv
BY DEF Init, IInv, TypeOK, ListIsExact, PaintsAreShown, PendingOwner, Clients, Buffers, Places

\* Every step keeps the types.
LEMMA NextTypeOK == TypeOK /\ [Next]_vars => TypeOK'
<1> SUFFICES ASSUME TypeOK, [Next]_vars PROVE TypeOK'
  OBVIOUS
<1> USE DEF TypeOK
<1>1. CASE Vsync
  <2>1. pc' \in [Clients -> Places]
    BY <1>1 DEF Vsync, Places
  <2>2. QED
    BY <1>1, <2>1 DEF Vsync
<1>2. ASSUME NEW c \in Clients, Start(c) \/ Step(c)
      PROVE  TypeOK'
  <2> USE DEF driverVars, Goto
  <2>1. CASE Start(c)
    BY <1>2, <2>1 DEF Start, Update, Places
  <2>2. CASE Load(c)
    BY <1>2, <2>2 DEF Load, Places, Buffers
  <2>3. CASE Store(c)
    BY <1>2, <2>3 DEF Store, Places
  <2>4. CASE WriteArea(c)
    BY <1>2, <2>4 DEF WriteArea, Places
  <2>5. CASE BufferChange(c)
    BY <1>2, <2>5 DEF BufferChange, Places
  <2>6. CASE VsyncWait(c)
    BY <1>2, <2>6 DEF VsyncWait, After, Places
  <2>7. CASE Resume(c)
    BY <1>2, <2>7 DEF Resume, After, Places
  <2>8. CASE Delay(c)
    BY <1>2, <2>8 DEF Delay, Places
  <2>9. QED
    BY <1>2, <2>1, <2>2, <2>3, <2>4, <2>5, <2>6, <2>7, <2>8 DEF Step
<1>3. CASE UNCHANGED vars
  BY <1>3 DEF vars, driverVars
<1>4. QED
  BY <1>1, <1>2, <1>3 DEF Next

\* Every step keeps the invariant: one case per step of the driver, and for the
\* two that touch the controller and the completion one per conjunct.
LEMMA NextIInv == IInv /\ [Next]_vars => IInv'
<1> SUFFICES ASSUME IInv, [Next]_vars PROVE IInv'
  OBVIOUS
<1>0. TypeOK /\ TypeOK'
  BY NextTypeOK DEF IInv
<1> USE DEF IInv
<1>1. CASE Vsync
  <2>1. ListIsExact'
    <3>1. CASE flag
      BY <1>0, <1>1, <3>1 DEF Vsync, ListIsExact
    <3>2. CASE ~flag
      BY <1>0, <1>1, <3>2 DEF Vsync, ListIsExact, TypeOK
    <3>3. QED
      BY <1>0, <3>1, <3>2
  <2>2. PaintsAreShown'
    <3>1. \A c \in Clients : pc'[c] \in {"write", "change", "halted"}
                             <=> pc[c] \in {"write", "change", "halted"}
      BY <1>0, <1>1 DEF Vsync, ListIsExact, TypeOK
    <3>2. QED
      BY <1>0, <1>1, <3>1 DEF Vsync, PaintsAreShown, TypeOK
  <2>3. PendingOwner'
    BY <1>1 DEF Vsync, PendingOwner
  <2>4. QED
    BY <1>0, <2>1, <2>2, <2>3
<1>2. ASSUME NEW c \in Clients, Start(c) \/ Step(c)
      PROVE  IInv'
  <2> USE <1>0, <1>2 DEF driverVars, Goto
  <2>1. CASE Start(c)
    BY <2>1 DEF Start, Update, TypeOK, ListIsExact, PaintsAreShown, PendingOwner
  <2>2. CASE Load(c)
    BY <2>2 DEF Load, TypeOK, ListIsExact, PaintsAreShown, PendingOwner
  <2>3. CASE Store(c)
    BY <2>3 DEF Store, TypeOK, ListIsExact, PaintsAreShown, PendingOwner
  <2>4. CASE WriteArea(c)
    BY <2>4 DEF WriteArea, TypeOK, ListIsExact, PaintsAreShown, PendingOwner
  <2>5. CASE BufferChange(c)
    <3>1. ListIsExact'
      BY <2>5 DEF BufferChange, TypeOK, ListIsExact
    <3>2. PaintsAreShown'
      BY <2>5 DEF BufferChange, TypeOK, PaintsAreShown
    <3>3. PendingOwner'
      BY <2>5 DEF BufferChange, TypeOK, PendingOwner
    <3>4. QED
      BY <3>1, <3>2, <3>3
  <2>6. CASE VsyncWait(c)
    <3>1. ListIsExact'
      BY <2>6 DEF VsyncWait, After, TypeOK, ListIsExact
    <3>2. PaintsAreShown'
      BY <2>6 DEF VsyncWait, After, TypeOK, PaintsAreShown
    <3>3. PendingOwner'
      BY <2>6 DEF VsyncWait, After, TypeOK, PendingOwner
    <3>4. QED
      BY <3>1, <3>2, <3>3
  <2>7. CASE Resume(c)
    BY <2>7 DEF Resume, After, TypeOK, ListIsExact, PaintsAreShown, PendingOwner
  <2>8. CASE Delay(c)
    BY <2>8 DEF Delay, TypeOK, ListIsExact, PaintsAreShown, PendingOwner
  <2>9. QED
    BY <2>1, <2>2, <2>3, <2>4, <2>5, <2>6, <2>7, <2>8 DEF Step
<1>3. CASE UNCHANGED vars
  BY <1>0, <1>3 DEF vars, driverVars, ListIsExact, PaintsAreShown, PendingOwner
<1>4. QED
  BY <1>1, <1>2, <1>3 DEF Next

\* The invariant of the LCD driver holds in every reachable state.
THEOREM InductiveInvariant == Spec => []IInv
BY InitIInv, NextIInv, PTL DEF Spec

\* The variables of the driver keep their types for any number of clients.
THEOREM TypeCorrect == Spec => []TypeOK
BY InductiveInvariant, PTL DEF IInv

\* The suspended list of sync_completion holds exactly the suspended threads,
\* however the waits of several threads and the vsync interrupts interleave.
THEOREM ListIsExactHolds == Spec => []ListIsExact
BY InductiveInvariant, PTL DEF IInv

\* What thread1 paints is on the screen or will be at the next vsync, however
\* many threads update the screen at the same time without a lock.
THEOREM PaintsAreShownHolds == Spec => []PaintsAreShown
BY InductiveInvariant, PTL DEF IInv

\* Once the controller has shown its first frame, the assertion on the result of
\* R_GLCDC_BufferChange stops a thread only when another thread's change is pending:
\* with one user it never fails.
THEOREM HaltsOnOverlapHolds == Spec => HaltsOnOverlap
<1>1. IInv /\ [Next]_vars =>
        [\A c \in Clients :
            pc[c] = "change" /\ pc'[c] = "halted" => ven \/ (pven /\ owner # c)]_vars
  <2> SUFFICES ASSUME IInv, Next, NEW c \in Clients, pc[c] = "change", pc'[c] = "halted"
               PROVE  ven \/ (pven /\ owner # c)
    OBVIOUS
  <2>1. TypeOK
    BY DEF IInv
  <2>2. pven \/ ven
    <3>1. CASE Vsync
      BY <2>1, <3>1 DEF Vsync, TypeOK, IInv, ListIsExact
    <3>2. ASSUME NEW d \in Clients, Start(d) \/ Step(d)
          PROVE  pven \/ ven
      <4>1. CASE d = c
        BY <2>1, <3>2, <4>1 DEF Start, Update, Step, Load, Store, WriteArea, BufferChange, VsyncWait,
                                Resume, Delay, Goto, TypeOK
      <4>2. CASE d # c
        <5>1. pc'[c] = pc[c]
          BY <2>1, <3>2, <4>2 DEF Start, Update, Step, Load, Store, WriteArea, BufferChange, VsyncWait,
                                  Resume, Delay, Goto, TypeOK
        <5>2. QED
          BY <5>1
      <4>3. QED
        BY <4>1, <4>2
    <3>3. QED
      BY <3>1, <3>2 DEF Next
  <2>3. QED
    BY <2>2 DEF IInv, PendingOwner
<1>2. QED
  BY <1>1, InductiveInvariant, PTL DEF Spec, HaltsOnOverlap
-----------------------------------------------------------------------------
(* The table that configures the panel before the first picture            *)
(* (MipiTable), for every table and every set of statuses.                 *)

\* What has been pushed so far is what the panel has, and while a message is
\* waited for it is in exactly one place: on the link, in the pending interrupt
\* or acknowledged in g_message_sent - unless it was lost with an error.
PanelInv ==
    /\ PanelTypeOK
    /\ \A j, k \in DOMAIN panel : j < k => panel[j] < panel[k]
    /\ pushing # "wait" => /\ link = 0 /\ irq = "none"
                           /\ Received = CommandsBefore(entry)
    /\ pushing \in {"command", "wait"} => entry <= Len(table) /\ ~IsDelay(table[entry])
    /\ pushing = "command" => ~g_message_sent
    /\ pushing = "wait" =>
        \/ /\ link \in {0, entry} /\ irq # "finished" /\ ~g_message_sent
           /\ Received = CommandsBefore(entry)
        \/ /\ link = 0 /\ irq = IF g_message_sent THEN "none" ELSE "finished"
           /\ Received = CommandsBefore(entry) \cup {entry}

LEMMA TableTypes ==
    ASSUME table \in Tables
    PROVE  /\ Len(table) \in Nat
           /\ \A k \in 1 .. Len(table) : table[k].size \in Nat
<1> DEFINE Entry == [cmd_id: STRING, size: Nat]
<1>1. table \in Seq(Entry)
  BY TablesAssumption
<1>2. \A e \in Entry : e.size \in Nat
  OBVIOUS
<1> HIDE DEF Entry
<1>3. Len(table) \in Nat /\ \A k \in 1 .. Len(table) : table[k] \in Entry
  BY <1>1, SMT
<1> QED BY <1>2, <1>3

\* Moving on from an entry adds it to the commands pushed, unless it is a delay.
LEMMA CommandsNext ==
    ASSUME entry \in Nat, entry >= 1
    PROVE  CommandsBefore(entry + 1) =
             CommandsBefore(entry) \cup (IF IsDelay(table[entry]) THEN {} ELSE {entry})
<1>1. 1 .. (entry + 1) - 1 = (1 .. entry - 1) \cup {entry}
  BY SMT
<1> QED BY <1>1 DEF CommandsBefore

LEMMA PanelTypeNext ==
    ASSUME PanelInv, [PanelNext]_panelVars
    PROVE  PanelTypeOK'
<1> USE DEF PanelTypeOK
<1>0. table \in Tables /\ Len(table) \in Nat /\ entry \in 1 .. Len(table) + 1
  BY TableTypes DEF PanelInv
<1>1. CASE End \/ Begin \/ Callback \/ UNCHANGED panelVars
  BY <1>1 DEF PanelInv, End, Begin, Callback, panelVars
<1>2. CASE SoftwareDelay
  <2>1. entry + 1 \in 1 .. Len(table) + 1 /\ 1 \in 1 .. Len(table)
    BY <1>0, <1>2, SMT DEF SoftwareDelay
  <2>2. table[1].size \in Nat
    BY <1>0, <2>1, TableTypes
  <2>3. delays' \in Seq(Nat)
    BY <1>2, <2>2, SMT DEF PanelInv, SoftwareDelay
  <2> QED BY <1>2, <2>1, <2>3 DEF PanelInv, SoftwareDelay
<1>3. CASE Command
  <2>1. link' \in 0 .. Len(table)
    BY <1>0, <1>3, SMT DEF PanelInv, Command
  <2> QED BY <1>3, <2>1 DEF PanelInv, Command
<1>4. CASE Sent
  <2>1. entry + 1 \in 1 .. Len(table) + 1
    BY <1>0, <1>4, SMT DEF PanelInv, Sent
  <2> QED BY <1>4, <2>1 DEF PanelInv, Sent
<1>5. CASE SequenceEnds
  <2>1. link \in 1 .. Len(table) /\ 0 \in 0 .. Len(table)
    BY <1>0, <1>5, SMT DEF PanelInv, SequenceEnds
  <2>2. panel' \in Seq(1 .. Len(table))
    <3>1. panel \in Seq(1 .. Len(table)) /\ panel' \in {panel, Append(panel, link)}
      BY <1>5 DEF PanelInv, SequenceEnds
    <3>2. Append(panel, link) \in Seq(1 .. Len(table))
      BY <2>1, <3>1, AppendProperties
    <3> QED BY <3>1, <3>2
  <2>3. irq' \in Statuses \cup {"none"} /\ error' \in BOOLEAN
    BY <1>5 DEF PanelInv, SequenceEnds
  <2> QED BY <1>5, <2>1, <2>2, <2>3 DEF PanelInv, SequenceEnds
<1> QED BY <1>1, <1>2, <1>3, <1>4, <1>5 DEF PanelNext, Push

LEMMA PanelInvNext ==
    ASSUME PanelInv, [PanelNext]_panelVars
    PROVE  PanelInv'
<1>0. /\ table \in Tables /\ Len(table) \in Nat /\ entry \in 1 .. Len(table) + 1
      /\ entry \in Nat /\ entry >= 1 /\ panel \in Seq(1 .. Len(table))
      /\ pushing \in {"entry", "command", "wait", "done"} /\ g_message_sent \in BOOLEAN
  BY TableTypes, SMT DEF PanelInv, PanelTypeOK
<1>t. PanelTypeOK'
  BY PanelTypeNext
<1>1. CASE End \/ Begin \/ UNCHANGED panelVars
  <2>1. UNCHANGED <<table, entry, link, irq, panel>>
    BY <1>1 DEF End, Begin, panelVars
  <2>2. Received' = Received /\ CommandsBefore(entry)' = CommandsBefore(entry)
    BY <2>1 DEF Received, CommandsBefore, IsDelay
  <2> QED BY <1>t, <1>1, <2>1, <2>2
          DEF PanelInv, End, Begin, panelVars, IsDelay
<1>2. CASE SoftwareDelay
  <2>1. UNCHANGED <<table, pushing, link, irq, panel>> /\ entry' = entry + 1 /\ pushing = "entry"
    BY <1>2 DEF SoftwareDelay
  <2>2. Received' = Received
    BY <2>1 DEF Received
  <2>3. CommandsBefore(entry)' = CommandsBefore(entry + 1)
    BY <2>1 DEF CommandsBefore, IsDelay
  <2>4. CommandsBefore(entry + 1) = CommandsBefore(entry)
    BY <1>0, <1>2, CommandsNext DEF SoftwareDelay
  <2> QED BY <1>t, <2>1, <2>2, <2>3, <2>4 DEF PanelInv
<1>3. CASE Command
  <2>1. /\ UNCHANGED <<table, entry, g_message_sent, irq, panel>> /\ link' = entry
        /\ pushing = "command" /\ pushing' = "wait"
    BY <1>3 DEF Command, PanelInv
  <2>2. Received' = Received /\ CommandsBefore(entry)' = CommandsBefore(entry)
    BY <2>1 DEF Received, CommandsBefore, IsDelay
  <2> QED BY <1>t, <2>1, <2>2 DEF PanelInv, IsDelay
<1>4. CASE Sent
  <2>1. /\ UNCHANGED <<table, g_message_sent, link, irq, panel>> /\ entry' = entry + 1
        /\ pushing = "wait" /\ pushing' = "entry" /\ g_message_sent
    BY <1>4 DEF Sent
  <2>2. /\ link = 0 /\ Received = CommandsBefore(entry) \cup {entry}
        /\ irq = "none"
    BY <2>1 DEF PanelInv
  <2>3. Received' = Received
    BY <2>1 DEF Received
  <2>4. CommandsBefore(entry)' = CommandsBefore(entry + 1)
    BY <2>1 DEF CommandsBefore, IsDelay
  <2>5. CommandsBefore(entry + 1) = CommandsBefore(entry) \cup {entry}
    BY <1>0, <2>1, CommandsNext DEF PanelInv
  <2> QED BY <1>t, <2>1, <2>2, <2>3, <2>4, <2>5 DEF PanelInv
<1>5. CASE SequenceEnds
  <2>1. /\ UNCHANGED <<table, entry, pushing, g_message_sent>> /\ link' = 0
        /\ pushing = "wait" /\ link = entry /\ irq = "none"
        /\ panel' = IF irq' = "finished" THEN Append(panel, entry) ELSE panel
    BY <1>0, <1>5, SMT DEF SequenceEnds, PanelInv
  <2>2. ~g_message_sent /\ Received = CommandsBefore(entry)
    BY <1>0, <2>1, SMT DEF PanelInv
  <2>3. CommandsBefore(entry)' = CommandsBefore(entry)
    BY <2>1 DEF CommandsBefore, IsDelay
  <2>4. entry <= Len(table) /\ ~IsDelay(table[entry])
    BY <2>1 DEF PanelInv
  <2>5. CASE irq' # "finished"
    <3>1. Received' = Received /\ UNCHANGED panel
      BY <2>1, <2>5 DEF Received
    <3> QED BY <1>t, <2>1, <2>2, <2>3, <2>4, <2>5, <3>1 DEF PanelInv, IsDelay
  <2>6. CASE irq' = "finished"
    <3>0. entry \in 1 .. Len(table)
      BY <1>0, <2>4, SMT
    <3>1. /\ Len(panel) \in Nat /\ DOMAIN panel = 1 .. Len(panel)
          /\ DOMAIN panel' = 1 .. Len(panel) + 1
          /\ \A k \in 1 .. Len(panel) : panel'[k] = panel[k]
          /\ panel'[Len(panel) + 1] = entry
      BY <1>0, <2>1, <2>6, <3>0, AppendProperties
    <3>2. 1 .. Len(panel) + 1 = (1 .. Len(panel)) \cup {Len(panel) + 1}
      BY <3>1, SMT
    <3>3. Received' = Received \cup {entry}
      BY <3>1, <3>2 DEF Received
    <3>4. \A k \in 1 .. Len(panel) : panel[k] \in Nat /\ panel[k] < entry
      <4>1. \A k \in 1 .. Len(panel) : panel[k] \in 1 .. entry - 1
        BY <2>2, <3>1 DEF Received, CommandsBefore
      <4> QED BY <1>0, <4>1, SMT
    <3>5. \A j, k \in DOMAIN panel' : j < k => panel'[j] < panel'[k]
      <4>1. \A j, k \in 1 .. Len(panel) : j < k => panel[j] < panel[k]
        BY <3>1 DEF PanelInv
      <4>2. SUFFICES ASSUME NEW j \in 1 .. Len(panel) + 1, NEW k \in 1 .. Len(panel) + 1, j < k
                     PROVE  panel'[j] < panel'[k]
        BY <3>1
      <4>3. j \in 1 .. Len(panel) /\ (k = Len(panel) + 1 \/ k \in 1 .. Len(panel))
        BY <3>1, <4>2, SMT
      <4> QED BY <3>1, <3>4, <4>1, <4>2, <4>3
    <3> QED BY <1>t, <2>1, <2>2, <2>3, <2>4, <2>6, <3>3, <3>5 DEF PanelInv, IsDelay
  <2> QED BY <2>5, <2>6
<1>6. CASE Callback
  <2>1. /\ UNCHANGED <<table, entry, pushing, link, panel>> /\ irq' = "none" /\ irq # "none"
        /\ g_message_sent' = (g_message_sent \/ irq = "finished")
    BY <1>6 DEF Callback
  <2>2. pushing = "wait" /\ link \in {0, entry}
    BY <2>1 DEF PanelInv
  <2>3. Received' = Received /\ CommandsBefore(entry)' = CommandsBefore(entry)
    BY <2>1 DEF Received, CommandsBefore, IsDelay
  <2>4. CASE irq = "finished"
    <3>1. g_message_sent' = TRUE
      BY <2>1, <2>4
    <3> QED BY <1>t, <2>1, <2>2, <2>3, <2>4, <3>1 DEF PanelInv, IsDelay
  <2>5. CASE irq # "finished"
    <3>1. g_message_sent' = g_message_sent
      BY <1>0, <2>1, <2>5
    <3> QED BY <1>t, <2>1, <2>2, <2>3, <2>5, <3>1 DEF PanelInv, IsDelay
  <2> QED BY <2>4, <2>5
<1> QED BY <1>1, <1>2, <1>3, <1>4, <1>5, <1>6 DEF PanelNext, Push

LEMMA PanelInitInv ==
    ASSUME PanelInit
    PROVE  PanelInv
<1>1. Len(table) \in Nat
  BY TableTypes DEF PanelInit
<1>2. entry \in 1 .. Len(table) + 1 /\ link \in 0 .. Len(table) /\ 1 .. entry - 1 = {}
  BY <1>1, SMT DEF PanelInit
<1>3. panel \in Seq(1 .. Len(table)) /\ delays \in Seq(Nat) /\ DOMAIN panel = {}
  BY SMT DEF PanelInit
<1>4. Received = {} /\ CommandsBefore(entry) = {}
  BY <1>2, <1>3 DEF Received, CommandsBefore
<1> QED BY <1>2, <1>3, <1>4 DEF PanelInit, PanelTypeOK, PanelInv

\* What has been pushed and what the panel has are in step.
THEOREM PanelInvariance == PanelSpec => []PanelInv
<1>1. PanelInit => PanelInv
  BY PanelInitInv
<1>2. PanelInv /\ [PanelNext]_panelVars => PanelInv'
  BY PanelInvNext
<1> QED BY <1>1, <1>2, PTL DEF PanelSpec

\* mipi_dsi_push_table stays within its table, whatever ends a sequence.
THEOREM PanelTypeCorrect == PanelSpec => []PanelTypeOK
<1>1. PanelInv => PanelTypeOK
  BY DEF PanelInv
<1> QED BY <1>1, PanelInvariance, PTL

\* The panel receives the commands of every table in order, each once.
THEOREM PanelInOrderCorrect == PanelSpec => []PanelInOrder
<1>1. PanelInv => PanelInOrder
  <2> SUFFICES ASSUME PanelInv PROVE PanelInOrder
    OBVIOUS
  <2>1. \/ Received = CommandsBefore(entry)
        \/ Received = CommandsBefore(entry) \cup {entry}
    BY DEF PanelInv
  <2> QED BY <2>1 DEF PanelInv, PanelInOrder
<1> QED BY <1>1, PanelInvariance, PTL
=============================================================================
