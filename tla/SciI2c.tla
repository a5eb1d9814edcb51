------------------------------- MODULE SciI2c -------------------------------
(***************************************************************************)
(* One I2C transfer of the "sci9i" bus: the thread in rt_i2c_transfer and  *)
(* ra_i2c_mst_xfer (drv_sci.c), and the interrupt handlers of the FSP      *)
(* driver r_sci_b_i2c.c that move the bytes and signal completion through  *)
(* an RT-Thread event.  bus->lock serialises callers, so one thread is     *)
(* enough; the driver is built without DTC and used with 7-bit addresses   *)
(* only, so addr_total is 1.                                               *)
(*                                                                         *)
(* The SCI peripheral and the slave are external: after a START, RESTART   *)
(* or STOP request the peripheral raises STI (sci_b_i2c_tei_isr), after a  *)
(* write to TDR it raises TXI (sci_b_i2c_txi_isr) with the acknowledge     *)
(* bit.  An interrupt and its handler are one step; the thread runs        *)
(* between interrupts.  R_SCI_B_I2C_Read, R_SCI_B_I2C_Write and            *)
(* sci_b_i2c_run_hw_master fill the control block with interrupts enabled, *)
(* so each of their stores is a step of its own.  Only the last statements *)
(* of sci_b_i2c_run_hw_master are one step: TDR and addr_loaded are        *)
(* written within the nine SCL periods that the byte in TDR takes.         *)
(*                                                                         *)
(* The 400 ms of ra_wait_complete may run out at any time; nothing then    *)
(* stops the peripheral, whose interrupts go on during later transfers,    *)
(* between the stores that prepare them included.                          *)
(*                                                                         *)
(* Data bytes are represented by their position.  plan and fresh are       *)
(* monitors, not program state: the bus traffic that the messages of the   *)
(* transfer still call for, and whether the transfer found the driver at   *)
(* rest and has not timed out.                                             *)
(***************************************************************************)
EXTENDS Integers, Sequences

CONSTANTS
    Transfers,        \* the message lists callers pass to rt_i2c_transfer
    MaxLen,           \* the longest message, in bytes
    UIntModulus,      \* the counters of the control block wrap at it (2^32 in the code)
    ByteModulus       \* addr_loaded wraps at it (2^8 in the code)

Msg == [read: BOOLEAN, len: 1 .. MaxLen, noStop: BOOLEAN]

ASSUME TransfersAssumption ==
    /\ MaxLen \in Nat \ {0}
    /\ UIntModulus \in Nat /\ UIntModulus > MaxLen
    /\ ByteModulus \in Nat /\ ByteModulus > 2
    /\ \A t \in Transfers : t \in Seq(Msg) /\ t # <<>> /\ ~t[Len(t)].noStop

VARIABLES
    pc,      \* the thread in ra_i2c_mst_xfer
    msgs, i, \* the messages and the index of the current one
    ok,      \* did the last transfer return num?
    got,     \* the bits rt_event_recv returned
    event,   \* obj->event
    ctrl,    \* the driver's control block
    rx,      \* the buffer at p_buff, by byte: what the handlers stored in it
    hw,      \* bus operations the peripheral is working on
    tdr,     \* the transmit data register
    ackt,    \* ICR.IICACKT: the acknowledge bit to send, TRUE for NACK
    te,      \* CCR0.TE and CCR0.RE
    rdr,     \* number of the byte in the receive data register
    plan,    \* monitor
    fresh    \* monitor

threadVars == <<pc, msgs, i, ok, got>>
vars == <<threadVars, event, ctrl, rx, hw, tdr, ackt, te, rdr, plan, fresh>>

Msgi == msgs[i]
-----------------------------------------------------------------------------
(* The monitor: what the messages of a transfer put on the bus, item by    *)
(* item.  Item 0 of a message is its START, item 1 its address, the next   *)
(* ones are its bytes and the last one is what ends it.                    *)

Over     == <<0, 0>>   \* nothing more is called for
StopOnly == <<0, 1>>   \* a byte was refused: only a STOP may come
Broken   == <<0, 2>>   \* something else has come, or the transfer is disturbed

Start   == <<"START", 0>>
Restart == <<"RESTART", 0>>
Stop    == <<"STOP", 0>>

\* A message that follows a RESTART has no START of its own.
NeedsStart(j) == j = 1 \/ ~msgs[j - 1].noStop

First(j) == <<j, IF NeedsStart(j) THEN 0 ELSE 1>>

After(j) == IF j = Len(msgs) THEN Over ELSE First(j + 1)

\* The address with the read bit, the bytes, and what ends the message; the
\* master refuses the last byte of a read, and no other.
Item(m, k) ==
    CASE k = 0                -> Start
      [] k = 1                -> <<"addr", IF m.read THEN 1 ELSE 0>>
      [] k \in 2 .. m.len + 1 -> IF ~m.read THEN <<"data", k - 1>>
                                 ELSE IF k <= m.len THEN <<"rx", k - 1>> ELSE <<"rxlast", k - 1>>
      [] k = m.len + 2        -> IF m.noStop THEN Restart ELSE Stop

\* The item the plan calls for has appeared.
Advance(p) ==
    IF p[2] = msgs[p[1]].len + 2 THEN After(p[1]) ELSE <<p[1], p[2] + 1>>

\* item appears on the bus; after a byte the slave refuses only a STOP may come.
Seen(item, refused) ==
    plan' = IF plan \in {Over, Broken} THEN Broken
            ELSE IF plan = StopOnly THEN (IF item = Stop THEN Over ELSE Broken)
            ELSE IF Item(msgs[plan[1]], plan[2]) # item THEN Broken
            ELSE IF refused THEN StopOnly ELSE Advance(plan)

PlanOK ==
    \/ plan \in {Over, StopOnly, Broken}
    \/ \E j \in 1 .. Len(msgs) : \E k \in 0 .. msgs[j].len + 2 : plan = <<j, k>>
-----------------------------------------------------------------------------
Buffer == [0 .. MaxLen - 1 -> 0 .. MaxLen]

\* What TDR holds: the address with the read bit, a byte of a write, the 0xFF that
\* clocks in a byte of a read, or a byte that is none of these.
TdrBytes == {"addr", "data", "dummy", "other"} \X (0 .. UIntModulus)

\* The thread while it fills the control block, named by the store it comes to.
Storing == {"issue", "p_buff", "addr_low", "read", "addr_loaded", "loaded", "remain", "err",
            "do_dummy_read", "dummy_if_read", "enable", "run"}

TypeOK ==
    /\ pc \in Storing \cup {"idle", "recv", "suspended", "done"}
    /\ msgs \in Transfers
    /\ i \in 1 .. Len(msgs)
    /\ ok \in BOOLEAN
    /\ got \subseteq {"ABORTED", "RX_COMPLETE", "TX_COMPLETE"}
    /\ event \subseteq {"ABORTED", "RX_COMPLETE", "TX_COMPLETE"}
    /\ ctrl \in [restart: BOOLEAN, restarted: BOOLEAN, read: BOOLEAN, addr_low: {0, 1},
                 total: 0 .. MaxLen, loaded: 0 .. UIntModulus - 1, remain: 0 .. UIntModulus - 1,
                 addr_loaded: 0 .. ByteModulus - 1, err: BOOLEAN, do_dummy_read: BOOLEAN]
    /\ rx \in Buffer
    /\ hw \subseteq {"start", "restart", "stop", "byte"}
    /\ tdr \in TdrBytes
    /\ ackt \in BOOLEAN
    /\ te \in BOOLEAN
    /\ rdr \in 0 .. MaxLen
    /\ PlanOK
    /\ fresh \in BOOLEAN
-----------------------------------------------------------------------------
\* R_SCI_B_I2C_Open has initialised the control block and ICR, with IICACKT set.
Init ==
    /\ pc = "idle"
    /\ msgs \in Transfers
    /\ i = 1
    /\ ok = FALSE
    /\ got = {}
    /\ event = {}
    /\ ctrl = [restart |-> FALSE, restarted |-> FALSE, read |-> FALSE, addr_low |-> 0,
               total |-> 0, loaded |-> 0, remain |-> 0, addr_loaded |-> 0, err |-> FALSE,
               do_dummy_read |-> FALSE]
    /\ rx = [k \in 0 .. MaxLen - 1 |-> 0]
    /\ hw = {}
    /\ tdr = <<"dummy", 0>>
    /\ ackt = TRUE
    /\ te = FALSE
    /\ rdr = 0
    /\ plan = Over
    /\ fresh = TRUE
-----------------------------------------------------------------------------
(* The thread.                                                             *)

\* Nothing is left of earlier transfers: no operation in the peripheral, no RESTART
\* to continue from, no event bit that the next transfer would take for its own.
AtRest == hw = {} /\ event = {} /\ ~ctrl.restarted

\* rt_i2c_transfer: bus->lock is taken and ra_i2c_mst_xfer entered.
Transfer ==
    /\ pc = "idle"
    /\ msgs' \in Transfers
    /\ i' = 1
    /\ plan' = IF AtRest THEN <<1, 0>> ELSE Broken
    /\ fresh' = AtRest
    /\ pc' = "issue"
    /\ UNCHANGED <<ok, got, event, ctrl, rx, hw, tdr, ackt, te, rdr>>

\* One store into the control block, after which it is c and the thread at next.
Store(c, next) ==
    /\ ctrl' = c
    /\ pc' = next
    /\ UNCHANGED <<msgs, i, ok, got, event, hw, tdr, ackt, te, rdr, plan, fresh>>

\* R_SCI_B_I2C_Read or R_SCI_B_I2C_Write up to sci_b_i2c_run_hw_master: the
\* descriptor is overwritten whether or not a transfer is still in progress.  total
\* goes with p_buff: no handler reads it.
Issue ==
    \/ /\ pc = "issue"
       /\ Store([ctrl EXCEPT !.restart = Msgi.noStop], "p_buff")
       /\ UNCHANGED rx
    \/ /\ pc = "p_buff"
       /\ Store([ctrl EXCEPT !.total = Msgi.len], "addr_low")
       /\ rx' = [k \in 0 .. MaxLen - 1 |-> 0]
    \/ /\ pc = "addr_low"
       /\ Store([ctrl EXCEPT !.addr_low = IF Msgi.read THEN 1 ELSE 0], "read")
       /\ UNCHANGED rx
    \/ /\ pc = "read"
       /\ Store([ctrl EXCEPT !.read = Msgi.read], "addr_loaded")
       /\ UNCHANGED rx

\* Mutant of ResetTrackers: loaded keeps the value it had.
ResetTrackersKeepsLoaded ==
    /\ \/ pc = "addr_loaded" /\ Store([ctrl EXCEPT !.addr_loaded = 0], "loaded")
       \/ pc = "loaded" /\ Store(ctrl, "remain")
       \/ pc = "remain" /\ Store([ctrl EXCEPT !.remain = ctrl.total], "err")
       \/ pc = "err" /\ Store([ctrl EXCEPT !.err = FALSE], "do_dummy_read")
       \/ pc = "do_dummy_read" /\ Store([ctrl EXCEPT !.do_dummy_read = FALSE], "dummy_if_read")
       \/ pc = "dummy_if_read" /\ Store([ctrl EXCEPT !.do_dummy_read = @ \/ ctrl.read], "enable")
    /\ UNCHANGED rx

\* sci_b_i2c_run_hw_master: the fields used during the transfer, one by one.
ResetTrackers ==
    /\ \/ pc = "addr_loaded" /\ Store([ctrl EXCEPT !.addr_loaded = 0], "loaded")
       \/ pc = "loaded" /\ Store([ctrl EXCEPT !.loaded = 0], "remain")
       \/ pc = "remain" /\ Store([ctrl EXCEPT !.remain = ctrl.total], "err")
       \/ pc = "err" /\ Store([ctrl EXCEPT !.err = FALSE], "do_dummy_read")
       \/ pc = "do_dummy_read" /\ Store([ctrl EXCEPT !.do_dummy_read = FALSE], "dummy_if_read")
       \/ pc = "dummy_if_read" /\ Store([ctrl EXCEPT !.do_dummy_read = @ \/ ctrl.read], "enable")
    /\ UNCHANGED rx

AddressByte == <<"addr", ctrl.addr_low>>

\* c with one more address byte counted.
CountAddress(c) == [c EXCEPT !.addr_loaded = (@ + 1) % ByteModulus]

\* The transmitter and the receiver are enabled.
Enable ==
    /\ pc = "enable"
    /\ te' = TRUE
    /\ pc' = "run"
    /\ UNCHANGED <<msgs, i, ok, got, event, ctrl, rx, hw, tdr, ackt, rdr, plan, fresh>>

\* Mutant of RunHwMaster: restarted is not cleared for the next transfer.
RunHwMasterKeepsRestarted ==
    /\ pc = "run"
    /\ IF ctrl.restarted
         THEN /\ ctrl' = CountAddress(ctrl)
              /\ tdr' = AddressByte
              /\ hw' = hw \cup {"byte"}
         ELSE hw' = hw \cup {"start"} /\ UNCHANGED <<ctrl, tdr>>
    /\ pc' = "recv"
    /\ UNCHANGED <<msgs, i, ok, got, event, rx, ackt, te, rdr, plan, fresh>>

\* The end of sci_b_i2c_run_hw_master: a new transaction asks for a START, one
\* that continues after a RESTART sends its address at once.
RunHwMaster ==
    /\ pc = "run"
    /\ IF ctrl.restarted
         THEN /\ ctrl' = CountAddress([ctrl EXCEPT !.restarted = FALSE])
              /\ tdr' = AddressByte
              /\ hw' = hw \cup {"byte"}
         ELSE hw' = hw \cup {"start"} /\ UNCHANGED <<ctrl, tdr>>
    /\ pc' = "recv"
    /\ UNCHANGED <<msgs, i, ok, got, event, rx, ackt, te, rdr, plan, fresh>>

\* ra_wait_complete enters rt_event_recv: the bits already there are taken at
\* once, otherwise the thread is suspended.
WaitComplete ==
    /\ pc = "recv"
    /\ pc' = IF event # {} THEN "done" ELSE "suspended"
    /\ got' = event
    /\ event' = {}
    /\ UNCHANGED <<msgs, i, ok, ctrl, rx, hw, tdr, ackt, te, rdr, plan, fresh>>

\* The 400 ms run out: the loop is left, and nothing stops the peripheral.
Timeout ==
    /\ pc = "suspended"
    /\ pc' = "idle"
    /\ ok' = FALSE
    /\ fresh' = FALSE
    /\ plan' = Broken
    /\ UNCHANGED <<msgs, i, got, event, ctrl, rx, hw, tdr, ackt, te, rdr>>

\* ra_wait_complete returns to ra_i2c_mst_xfer: an aborted message ends the
\* loop, a complete one leads to the next message or to the return of num.
NextMessage ==
    /\ pc = "done"
    /\ \/ /\ "ABORTED" \in got
          /\ pc' = "idle"
          /\ ok' = FALSE
          /\ UNCHANGED i
       \/ /\ "ABORTED" \notin got
          /\ i < Len(msgs)
          /\ i' = i + 1
          /\ pc' = "issue"
          /\ UNCHANGED ok
       \/ /\ "ABORTED" \notin got
          /\ i = Len(msgs)
          /\ pc' = "idle"
          /\ ok' = TRUE
          /\ UNCHANGED i
    /\ UNCHANGED <<msgs, got, event, ctrl, rx, hw, tdr, ackt, te, rdr, plan, fresh>>

Thread == Issue \/ ResetTrackers \/ Enable \/ RunHwMaster \/ WaitComplete \/ NextMessage
-----------------------------------------------------------------------------
(* The interrupt handlers.                                                 *)

\* Mutant of Notify: a bit that nobody is suspended on is lost.
NotifySuspendedOnly(bit) ==
    /\ IF pc = "suspended" THEN pc' = "done" /\ got' = {bit} ELSE UNCHANGED <<pc, got>>
    /\ UNCHANGED <<event, msgs, i, ok>>

\* sci_b_i2c_notify, sci_i2c_irq_callback and rt_event_send: a suspended
\* receiver is given the bit, otherwise the bit stays in the event.
Notify(bit) ==
    /\ IF pc = "suspended"
         THEN pc' = "done" /\ got' = {bit} /\ UNCHANGED event
         ELSE event' = event \cup {bit} /\ UNCHANGED <<pc, got>>
    /\ UNCHANGED <<msgs, i, ok>>

\* sci_b_i2c_issue_restart_or_stop, from the control block c.
RestartOrStop(c) ==
    /\ ctrl' = [c EXCEPT !.restarted = c.restart \/ c.restarted]
    /\ hw' = (hw \ {"byte"}) \cup {IF c.restart THEN "restart" ELSE "stop"}
    /\ UNCHANGED <<tdr, ackt>>

\* A byte is written to TDR while the one before has just been exchanged.
SendByte(byte) ==
    /\ tdr' = byte
    /\ UNCHANGED hw

\* Mutant of CountByte: the counters do not wrap.
CountByteNoWrap(c) == [c EXCEPT !.remain = @ - 1, !.loaded = @ + 1]

\* Account for one more byte moved between the buffer and the bus.
CountByte(c) == [c EXCEPT !.remain = (@ - 1) % UIntModulus,
                          !.loaded = (@ + 1) % UIntModulus]

\* Mutant of TxiAck: NACK is enabled one byte too late.
TxiAckLateNack ==
    \/ /\ ctrl.remain > 0 /\ ~ctrl.read
       /\ ctrl' = CountByte(ctrl)
       /\ SendByte(<<"data", ctrl.loaded + 1>>)
       /\ UNCHANGED <<rx, ackt>>
    \/ /\ ctrl.remain > 0 /\ ctrl.read /\ ctrl.do_dummy_read
       /\ ctrl' = [ctrl EXCEPT !.do_dummy_read = FALSE]
       /\ ackt' = FALSE
       /\ SendByte(<<"dummy", 0>>)
       /\ UNCHANGED rx
    \/ /\ ctrl.remain > 0 /\ ctrl.read /\ ~ctrl.do_dummy_read
       /\ rx' = [rx EXCEPT ![ctrl.loaded] = rdr']
       /\ ctrl' = CountByte(ctrl)
       /\ ackt' = (ctrl.remain = 1)
       /\ SendByte(<<"dummy", 0>>)
    \/ /\ ctrl.remain = 0
       /\ RestartOrStop(ctrl)
       /\ UNCHANGED rx

\* The byte in TDR has been exchanged and TXI is raised with ACK: the branches
\* of sci_b_i2c_txi_handler and sci_b_i2c_txi_send_data.  The first one is meant for
\* addresses of 10 bits; here only stale interrupts can lead to it.
TxiAck ==
    \/ /\ ctrl.addr_loaded = 2 /\ ctrl.read
       /\ hw' = (hw \ {"byte"}) \cup {"restart"}
       /\ UNCHANGED <<ctrl, rx, tdr, ackt>>
    \/ /\ ctrl.addr_loaded # 1 /\ ~(ctrl.addr_loaded = 2 /\ ctrl.read)
       /\ ctrl' = CountAddress(ctrl)
       /\ SendByte(AddressByte)
       /\ UNCHANGED <<rx, ackt>>
    \/ /\ ctrl.addr_loaded = 1 /\ ctrl.remain > 0 /\ ~ctrl.read
       /\ ctrl' = CountByte(ctrl)
       /\ SendByte(<<"data", ctrl.loaded + 1>>)
       /\ UNCHANGED <<rx, ackt>>
    \/ /\ ctrl.addr_loaded = 1 /\ ctrl.remain > 0 /\ ctrl.read /\ ctrl.do_dummy_read
       /\ ctrl' = [ctrl EXCEPT !.do_dummy_read = FALSE]
       /\ ackt' = (ctrl.remain = 1)
       /\ SendByte(<<"dummy", 0>>)
       /\ UNCHANGED rx
    \/ /\ ctrl.addr_loaded = 1 /\ ctrl.remain > 0 /\ ctrl.read /\ ~ctrl.do_dummy_read
       /\ rx' = [rx EXCEPT ![ctrl.loaded] = rdr']
       /\ ctrl' = CountByte(ctrl)
       /\ ackt' = (ctrl'.remain = 1 \/ ackt)
       /\ SendByte(<<"dummy", 0>>)
    \/ /\ ctrl.addr_loaded = 1 /\ ctrl.remain = 0
       /\ RestartOrStop(ctrl)
       /\ UNCHANGED rx

\* Mutant of TxiNack: the last byte of a read is not taken from RDR.
TxiNackDropsLast ==
    \/ /\ ~ctrl.read \/ ctrl.do_dummy_read
       /\ ctrl' = [ctrl EXCEPT !.remain = 0, !.err = TRUE]
       /\ hw' = (hw \ {"byte"}) \cup {"stop"}
       /\ UNCHANGED <<rx, tdr, ackt>>
    \/ /\ ctrl.read /\ ~ctrl.do_dummy_read
       /\ RestartOrStop(CountByte(ctrl))
       /\ UNCHANGED rx

\* TXI is raised with NACK: sci_b_i2c_txi_process_nack.  A refused address or
\* write byte is an error; a refused read byte is the last one of the message.
TxiNack ==
    \/ /\ ~ctrl.read \/ ctrl.do_dummy_read
       /\ ctrl' = [ctrl EXCEPT !.remain = 0, !.err = TRUE]
       /\ hw' = (hw \ {"byte"}) \cup {"stop"}
       /\ UNCHANGED <<rx, tdr, ackt>>
    \/ /\ ctrl.read /\ ~ctrl.do_dummy_read
       /\ rx' = [rx EXCEPT ![ctrl.loaded] = rdr']
       /\ RestartOrStop(CountByte(ctrl))

\* The peripheral exchanges the byte in TDR.  The slave acknowledges or refuses
\* an address or a byte written to it; the master's IICACKT decides for a byte read.
ByteDone ==
    /\ "byte" \in hw
    /\ te
    /\ \/ /\ tdr[1] # "dummy"
          /\ rdr' = 0
          /\ \/ TxiAck /\ Seen(tdr, FALSE)
             \/ TxiNack /\ Seen(tdr, TRUE)
       \/ /\ tdr[1] = "dummy"
          /\ rdr' = IF rdr < MaxLen THEN rdr + 1 ELSE rdr
          /\ Seen(<<IF ackt THEN "rxlast" ELSE "rx", rdr'>>, FALSE)
          /\ IF ackt THEN TxiNack ELSE TxiAck
    /\ UNCHANGED <<threadVars, event, te, fresh>>

\* The peripheral has generated a bus condition and STI is raised: the branches
\* of sci_b_i2c_tei_handler.
ConditionDone(condition) ==
    /\ condition \in hw
    /\ Seen(<<CASE condition = "start" -> "START"
              [] condition = "restart" -> "RESTART"
              [] condition = "stop" -> "STOP", 0>>, FALSE)
    /\ \/ /\ ctrl.err
          /\ Notify("ABORTED")
          /\ hw' = hw \ {condition}
          /\ UNCHANGED <<ctrl, tdr, te>>
       \/ /\ ~ctrl.err /\ ctrl.addr_loaded # 1
          /\ tdr' = IF ctrl.addr_loaded = 0 THEN AddressByte ELSE <<"other", 0>>
          /\ hw' = (hw \ {condition}) \cup {"byte"}
          /\ ctrl' = CountAddress(ctrl)
          /\ UNCHANGED <<threadVars, event, te>>
       \/ /\ ~ctrl.err /\ ctrl.addr_loaded = 1 /\ ctrl.remain = 0
          /\ te' = (te /\ ctrl.restarted)
          /\ Notify(IF ctrl.read THEN "RX_COMPLETE" ELSE "TX_COMPLETE")
          /\ hw' = hw \ {condition}
          /\ UNCHANGED <<ctrl, tdr>>
       \/ /\ ~ctrl.err /\ ctrl.addr_loaded = 1 /\ ctrl.remain # 0
          /\ hw' = hw \ {condition}
          /\ UNCHANGED <<threadVars, event, ctrl, tdr, te>>
    /\ UNCHANGED <<rx, ackt, rdr, fresh>>

Hardware == ByteDone \/ \E c \in {"start", "restart", "stop"} : ConditionDone(c)

Next == Transfer \/ Thread \/ Timeout \/ Hardware

Spec == Init /\ [][Next]_vars

\* The thread runs when it can, and the peripheral finishes what it was asked.  The
\* timer of ra_wait_complete may expire but is not counted on.
FairSpec == Spec /\ WF_vars(Thread) /\ WF_vars(Hardware)
-----------------------------------------------------------------------------
(* Properties.                                                             *)

\* The bus carries what the messages call for and nothing else: START, address
\* and bytes in order, NACK on the last byte read and on no other, RESTART or
\* STOP as the flags say, and a STOP after a byte the slave refused.  Transfers
\* that timed out spoil only those that begin while the driver is not at rest.
BusConforms == fresh => plan # Broken

\* ra_i2c_mst_xfer returns when the traffic of its messages is over, and leaves
\* the driver at rest: one undisturbed transfer after another.
QuietOnReturn == fresh /\ pc = "idle" => plan = Over /\ AtRest

\* When ra_i2c_mst_xfer returns num after a read, each byte of the buffer is
\* the byte the slave sent in its place.
ReadIsExact ==
    fresh /\ pc = "idle" /\ ok /\ msgs[Len(msgs)].read =>
        \A k \in 1 .. msgs[Len(msgs)].len : rx[k - 1] = k

\* From the first byte to the return, the handlers move no byte past the end of the
\* message and the counters account for every byte, whatever values the transfers
\* before left in the control block.  Only of a transfer that found the driver at
\* rest: an interrupt of a transfer that timed out, between the stores that prepare
\* the next one, makes the handlers run past the end of its buffer.
NoOverrun ==
    fresh /\ pc \in {"recv", "suspended", "done"} => ctrl.loaded + ctrl.remain <= ctrl.total

\* A transfer that found the driver at rest returns without needing the timeout:
\* no handler leaves the bus without the interrupt that will wake the thread.
TransferReturns == (pc = "issue" /\ fresh) ~> (pc = "idle")
=============================================================================
