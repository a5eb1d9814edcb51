--------------------------- MODULE SciI2c_proofs ---------------------------
(***************************************************************************)
(* The theorems of SciI2c, for every set of transfers and every length of  *)
(* message.  The types hold in every state; FreshInv describes a transfer  *)
(* that found the driver at rest: what the thread has stored, what the     *)
(* peripheral works on, what the control block says and where the monitor  *)
(* stands always belong together.                                          *)
(***************************************************************************)
EXTENDS SciI2c, TLAPS

Reading == ctrl.read /\ ~ctrl.do_dummy_read

\* The control block describes the current message.
Described ==
    /\ ctrl.restart = Msgi.noStop
    /\ ctrl.total = Msgi.len
    /\ ctrl.read = Msgi.read
    /\ ctrl.addr_low = IF Msgi.read THEN 1 ELSE 0

Exact(len) == \A k \in 0 .. len - 1 : rx[k] = k + 1

\* A START has been asked for.
Starting ==
    /\ hw = {"start"}
    /\ plan = <<i, 0>>
    /\ ctrl.addr_loaded = 0 /\ ctrl.loaded = 0 /\ ctrl.remain = ctrl.total
    /\ ctrl.do_dummy_read = ctrl.read
    /\ ~ctrl.restarted /\ ~ctrl.err

\* The address is on the bus.
Addressing ==
    /\ hw = {"byte"}
    /\ tdr = AddressByte
    /\ plan = <<i, 1>>
    /\ ctrl.addr_loaded = 1 /\ ctrl.loaded = 0 /\ ctrl.remain = ctrl.total
    /\ ctrl.do_dummy_read = ctrl.read
    /\ ~ctrl.restarted /\ ~ctrl.err

\* A byte of a write is on the bus.
WritingByte ==
    /\ ~ctrl.read
    /\ hw = {"byte"}
    /\ tdr = <<"data", ctrl.loaded>>
    /\ plan = <<i, ctrl.loaded + 1>>
    /\ ctrl.addr_loaded = 1
    /\ ctrl.loaded >= 1 /\ ctrl.loaded + ctrl.remain = ctrl.total
    /\ ~ctrl.restarted /\ ~ctrl.err

\* A byte of a read is on the bus.
ReadingByte ==
    /\ Reading
    /\ hw = {"byte"}
    /\ tdr[1] = "dummy"
    /\ plan = <<i, ctrl.loaded + 2>>
    /\ ctrl.addr_loaded = 1
    /\ ctrl.remain >= 1 /\ ctrl.loaded + ctrl.remain = ctrl.total
    /\ rdr = ctrl.loaded
    /\ ackt = (ctrl.remain = 1)
    /\ Exact(ctrl.loaded)
    /\ ~ctrl.restarted /\ ~ctrl.err

\* The RESTART or the STOP at the end of the message has been asked for.
Ending ==
    /\ hw = {IF ctrl.restart THEN "restart" ELSE "stop"}
    /\ plan = <<i, ctrl.total + 2>>
    /\ ctrl.addr_loaded = 1
    /\ ctrl.remain = 0 /\ ctrl.loaded = ctrl.total
    /\ ctrl.read => Exact(ctrl.total)
    /\ ctrl.restarted = ctrl.restart
    /\ ~ctrl.err

\* The slave has refused a byte and the STOP has been asked for.
Refused ==
    /\ hw = {"stop"}
    /\ plan = StopOnly
    /\ ctrl.err
    /\ ~ctrl.restarted
    /\ ctrl.loaded <= ctrl.total /\ ctrl.remain = 0

Moving ==
    /\ te
    /\ Described
    /\ Starting \/ Addressing \/ WritingByte \/ ReadingByte \/ Ending \/ Refused

\* The message is over and bit tells how.
MessageOver(bit) ==
    /\ hw = {}
    /\ ctrl.loaded + ctrl.remain <= ctrl.total
    /\ IF bit = "ABORTED"
         THEN plan = Over /\ ~ctrl.restarted
         ELSE /\ plan = After(i)
              /\ ctrl.restarted = Msgi.noStop
              /\ ctrl.restarted => te
              /\ Msgi.read => Exact(Msgi.len)

\* The message is to begin.
Beginning ==
    /\ hw = {} /\ event = {}
    /\ plan = First(i)
    /\ ctrl.restarted = ~NeedsStart(i)
    /\ ctrl.restarted => te

\* The stores the thread has made, by the one it comes to next.
Stored ==
    /\ pc # "issue" => ctrl.restart = Msgi.noStop
    /\ pc \notin {"issue", "p_buff"} => ctrl.total = Msgi.len
    /\ pc \notin {"issue", "p_buff", "addr_low"} => ctrl.addr_low = IF Msgi.read THEN 1 ELSE 0
    /\ pc \notin {"issue", "p_buff", "addr_low", "read"} => ctrl.read = Msgi.read
    /\ pc \in {"loaded", "remain", "err", "do_dummy_read", "dummy_if_read", "enable", "run"} =>
         ctrl.addr_loaded = 0
    /\ pc \in {"remain", "err", "do_dummy_read", "dummy_if_read", "enable", "run"} =>
         ctrl.loaded = 0
    /\ pc \in {"err", "do_dummy_read", "dummy_if_read", "enable", "run"} =>
         ctrl.remain = ctrl.total
    /\ pc \in {"do_dummy_read", "dummy_if_read", "enable", "run"} => ctrl.err = FALSE
    /\ pc = "dummy_if_read" => ctrl.do_dummy_read = FALSE
    /\ pc \in {"enable", "run"} => ctrl.do_dummy_read = ctrl.read
    /\ pc = "run" => te

Bits == {"ABORTED", "RX_COMPLETE", "TX_COMPLETE"}

FreshInv ==
    /\ pc = "idle" =>
        /\ plan = Over /\ AtRest
        /\ ok /\ msgs[Len(msgs)].read => Exact(msgs[Len(msgs)].len)
    /\ pc \in Storing => Beginning /\ Stored
    /\ pc = "recv" => \/ event = {} /\ Moving
                      \/ \E bit \in Bits : event = {bit} /\ MessageOver(bit)
    /\ pc = "suspended" => event = {} /\ Moving
    /\ pc = "done" => event = {} /\ \E bit \in Bits : got = {bit} /\ MessageOver(bit)

IInv == TypeOK /\ (fresh => FreshInv)
-----------------------------------------------------------------------------
(* Types, in the parts that the actions disturb separately.                *)

ThreadTypes ==
    /\ pc \in Storing \cup {"idle", "recv", "suspended", "done"}
    /\ msgs \in Transfers
    /\ i \in 1 .. Len(msgs)
    /\ ok \in BOOLEAN
    /\ got \subseteq Bits
    /\ event \subseteq Bits
    /\ fresh \in BOOLEAN

CtrlType ==
    [restart: BOOLEAN, restarted: BOOLEAN, read: BOOLEAN, addr_low: {0, 1},
     total: 0 .. MaxLen, loaded: 0 .. UIntModulus - 1, remain: 0 .. UIntModulus - 1,
     addr_loaded: 0 .. ByteModulus - 1, err: BOOLEAN, do_dummy_read: BOOLEAN]

HardwareTypes ==
    /\ rx \in Buffer
    /\ hw \subseteq {"start", "restart", "stop", "byte"}
    /\ tdr \in TdrBytes
    /\ ackt \in BOOLEAN
    /\ te \in BOOLEAN
    /\ rdr \in 0 .. MaxLen

Types == ThreadTypes /\ ctrl \in CtrlType /\ HardwareTypes /\ PlanOK

\* TypeOK is its parts.
LEMMA TypesOfTypeOK == TypeOK <=> Types
BY DEF TypeOK, Types, ThreadTypes, CtrlType, HardwareTypes, Bits

\* A transfer is a list of messages of which the last one ends with a STOP.
LEMMA MessageTypes ==
    ASSUME ThreadTypes
    PROVE  /\ Len(msgs) \in Nat /\ Len(msgs) >= 1
           /\ \A j \in 1 .. Len(msgs) :
                /\ msgs[j] \in Msg
                /\ msgs[j].read \in BOOLEAN /\ msgs[j].noStop \in BOOLEAN
                /\ msgs[j].len \in 1 .. MaxLen
           /\ Msgi \in Msg
           /\ ~msgs[Len(msgs)].noStop
<1>1. msgs \in Seq(Msg) /\ msgs # <<>> /\ ~msgs[Len(msgs)].noStop
  BY TransfersAssumption DEF ThreadTypes
<1>2. Len(msgs) \in Nat /\ Len(msgs) >= 1 /\ \A j \in 1 .. Len(msgs) : msgs[j] \in Msg
  BY <1>1, SMT
<1>3. \A m \in Msg : m.read \in BOOLEAN /\ m.noStop \in BOOLEAN /\ m.len \in 1 .. MaxLen
  BY DEF Msg
<1> QED BY <1>1, <1>2, <1>3 DEF ThreadTypes, Msgi

\* The fields of the control block.
LEMMA CtrlFields ==
    ASSUME NEW c \in CtrlType
    PROVE  /\ c.restart \in BOOLEAN /\ c.restarted \in BOOLEAN /\ c.read \in BOOLEAN
           /\ c.total \in Int /\ 0 <= c.total /\ c.total <= MaxLen
           /\ c.loaded \in Int /\ 0 <= c.loaded /\ c.loaded < UIntModulus
           /\ c.remain \in Int /\ 0 <= c.remain /\ c.remain < UIntModulus
           /\ c.addr_loaded \in Int /\ 0 <= c.addr_loaded /\ c.addr_loaded < ByteModulus
           /\ c.addr_low \in {0, 1}
           /\ c.err \in BOOLEAN /\ c.do_dummy_read \in BOOLEAN
           /\ MaxLen \in Nat /\ MaxLen >= 1 /\ UIntModulus \in Nat /\ UIntModulus > MaxLen
           /\ ByteModulus \in Nat /\ ByteModulus > 2
BY TransfersAssumption, SMT DEF CtrlType
-----------------------------------------------------------------------------
(* What each handler makes of the control block, field by field.           *)

\* CountByte moves one byte from remain to loaded; with remain = 0 it wraps.
LEMMA CountByteFields ==
    ASSUME NEW c \in CtrlType
    PROVE  /\ CountByte(c) \in CtrlType
           /\ CountByte(c).restart = c.restart /\ CountByte(c).restarted = c.restarted
           /\ CountByte(c).read = c.read /\ CountByte(c).total = c.total
           /\ CountByte(c).addr_loaded = c.addr_loaded /\ CountByte(c).addr_low = c.addr_low
           /\ CountByte(c).err = c.err
           /\ CountByte(c).do_dummy_read = c.do_dummy_read
           /\ c.remain > 0 => CountByte(c).remain = c.remain - 1
           /\ c.loaded + 1 < UIntModulus => CountByte(c).loaded = c.loaded + 1
<1> DEFINE r == (c.remain - 1) % UIntModulus
           l == (c.loaded + 1) % UIntModulus
<1>1. r \in 0 .. UIntModulus - 1 /\ l \in 0 .. UIntModulus - 1
  BY CtrlFields, SMT
<1>2. c.remain > 0 => r = c.remain - 1
  BY CtrlFields, SMT
<1>3. c.loaded + 1 < UIntModulus => l = c.loaded + 1
  BY CtrlFields, SMT
<1>4. CountByte(c) = [c EXCEPT !.remain = r, !.loaded = l]
  BY DEF CountByte
<1> HIDE DEF r, l
<1>5. CountByte(c) \in CtrlType
  BY <1>1, <1>4, Zenon DEF CtrlType
<1>6. /\ CountByte(c).remain = r /\ CountByte(c).loaded = l
      /\ CountByte(c).restart = c.restart /\ CountByte(c).restarted = c.restarted
      /\ CountByte(c).read = c.read /\ CountByte(c).total = c.total
      /\ CountByte(c).addr_loaded = c.addr_loaded /\ CountByte(c).addr_low = c.addr_low
      /\ CountByte(c).err = c.err
      /\ CountByte(c).do_dummy_read = c.do_dummy_read
  BY <1>4, SMT DEF CtrlType
<1> QED BY <1>2, <1>3, <1>5, <1>6, SMT

\* One more address byte is counted.
LEMMA AddressFields ==
    ASSUME NEW c \in CtrlType, NEW d, d = CountAddress(c)
    PROVE  /\ d \in CtrlType
           /\ d.restart = c.restart /\ d.total = c.total /\ d.read = c.read
           /\ d.addr_low = c.addr_low
           /\ d.restarted = c.restarted /\ d.loaded = c.loaded /\ d.remain = c.remain
           /\ c.addr_loaded = 0 => d.addr_loaded = 1
           /\ d.err = c.err /\ d.do_dummy_read = c.do_dummy_read
<1> DEFINE a == (c.addr_loaded + 1) % ByteModulus
<1>1. a \in 0 .. ByteModulus - 1 /\ (c.addr_loaded = 0 => a = 1)
  BY CtrlFields, SMT
<1>2. d = [c EXCEPT !.addr_loaded = a]
  BY DEF CountAddress
<1> HIDE DEF a
<1>3. d \in CtrlType
  BY <1>1, <1>2, Zenon DEF CtrlType
<1>4. /\ d.addr_loaded = a
      /\ d.restart = c.restart /\ d.total = c.total /\ d.read = c.read /\ d.addr_low = c.addr_low
      /\ d.restarted = c.restarted /\ d.loaded = c.loaded /\ d.remain = c.remain
      /\ d.err = c.err /\ d.do_dummy_read = c.do_dummy_read
  BY <1>2, SMT DEF CtrlType
<1> QED BY <1>1, <1>3, <1>4

\* The flag of a RESTART is cleared.
LEMMA RestartedFields ==
    ASSUME NEW c \in CtrlType, NEW d, d = [c EXCEPT !.restarted = FALSE]
    PROVE  /\ d \in CtrlType
           /\ d.restart = c.restart /\ d.total = c.total /\ d.read = c.read
           /\ d.addr_low = c.addr_low
           /\ d.restarted = FALSE /\ d.loaded = c.loaded /\ d.remain = c.remain
           /\ d.addr_loaded = c.addr_loaded /\ d.err = c.err
           /\ d.do_dummy_read = c.do_dummy_read
<1>1. d \in CtrlType
  BY Zenon DEF CtrlType
<1> QED BY <1>1, SMT DEF CtrlType

\* The dummy byte of a read is written.
LEMMA DummyFields ==
    ASSUME NEW c \in CtrlType, NEW d, d = [c EXCEPT !.do_dummy_read = FALSE]
    PROVE  /\ d \in CtrlType
           /\ d.restart = c.restart /\ d.total = c.total /\ d.read = c.read
           /\ d.addr_low = c.addr_low
           /\ d.restarted = c.restarted /\ d.loaded = c.loaded /\ d.remain = c.remain
           /\ d.addr_loaded = c.addr_loaded /\ d.err = c.err /\ d.do_dummy_read = FALSE
<1>1. d \in CtrlType
  BY Zenon DEF CtrlType
<1> QED BY <1>1, Zenon DEF CtrlType

\* sci_b_i2c_txi_process_nack on a refused address or write byte.
LEMMA ErrorFields ==
    ASSUME NEW c \in CtrlType, NEW d, d = [c EXCEPT !.remain = 0, !.err = TRUE]
    PROVE  /\ d \in CtrlType
           /\ d.restart = c.restart /\ d.total = c.total /\ d.read = c.read
           /\ d.addr_low = c.addr_low
           /\ d.restarted = c.restarted /\ d.loaded = c.loaded /\ d.remain = 0
           /\ d.addr_loaded = c.addr_loaded /\ d.err = TRUE
           /\ d.do_dummy_read = c.do_dummy_read
<1>1. 0 \in 0 .. UIntModulus - 1
  BY CtrlFields, SMT
<1>2. d \in CtrlType
  BY <1>1, Zenon DEF CtrlType
<1> QED BY <1>2, SMT DEF CtrlType

\* sci_b_i2c_issue_restart_or_stop.
LEMMA EndFields ==
    ASSUME NEW c \in CtrlType, NEW d, d = [c EXCEPT !.restarted = c.restart \/ c.restarted]
    PROVE  /\ d \in CtrlType
           /\ d.restart = c.restart /\ d.total = c.total /\ d.read = c.read
           /\ d.addr_low = c.addr_low
           /\ d.restarted = (c.restart \/ c.restarted)
           /\ d.loaded = c.loaded /\ d.remain = c.remain
           /\ d.addr_loaded = c.addr_loaded /\ d.err = c.err
           /\ d.do_dummy_read = c.do_dummy_read
<1>1. (c.restart \/ c.restarted) \in BOOLEAN
  OBVIOUS
<1>2. d \in CtrlType
  BY <1>1, Zenon DEF CtrlType
<1> QED BY <1>1, <1>2, SMT DEF CtrlType
-----------------------------------------------------------------------------
(* The types are kept.                                                     *)

\* The monitor stays on an item of a message or on one of its marks.
LEMMA SeenType ==
    ASSUME ThreadTypes, PlanOK, UNCHANGED msgs,
           NEW item, NEW refused \in BOOLEAN, Seen(item, refused)
    PROVE  PlanOK'
<1>1. CASE plan \in {Over, StopOnly, Broken}
  BY <1>1 DEF Seen, PlanOK
<1>2. ASSUME NEW j \in 1 .. Len(msgs), NEW k \in 0 .. msgs[j].len + 2, plan = <<j, k>>
      PROVE  PlanOK'
  <2>1. Len(msgs) \in Nat /\ \A n \in 1 .. Len(msgs) : msgs[n].len \in Int /\ msgs[n].len >= 1
    BY MessageTypes, TransfersAssumption, SMT
  <2>2. plan[1] = j /\ plan[2] = k
    BY <1>2
  <2>3. CASE k = msgs[j].len + 2
    <3>1. After(j) = Over \/ \E n \in 1 .. Len(msgs), e \in {0, 1} : After(j) = <<n, e>>
      <4>1. j # Len(msgs) => j + 1 \in 1 .. Len(msgs)
        BY <2>1, SMT
      <4> QED BY <4>1 DEF After, First
    <3>2. \A n \in 1 .. Len(msgs) : 0 \in 0 .. msgs[n].len + 2 /\ 1 \in 0 .. msgs[n].len + 2
      BY <2>1, SMT
    <3>3. plan' \in {Over, StopOnly, Broken, After(j)}
      BY <2>2, <2>3 DEF Seen, Advance
    <3> QED BY <3>1, <3>2, <3>3 DEF PlanOK
  <2>4. CASE k # msgs[j].len + 2
    <3>1. k + 1 \in 0 .. msgs[j].len + 2
      BY <2>1, <2>4, SMT
    <3>2. plan' \in {Over, StopOnly, Broken, <<j, k + 1>>}
      BY <2>2, <2>4 DEF Seen, Advance
    <3> QED BY <3>1, <3>2 DEF PlanOK
  <2> QED BY <2>3, <2>4
<1> QED BY <1>1, <1>2 DEF PlanOK

LEMMA BufferType ==
    ASSUME NEW b \in Buffer, NEW k, NEW v \in 0 .. MaxLen
    PROVE  [b EXCEPT ![k] = v] \in Buffer
BY DEF Buffer

\* The bytes that the driver writes fit the register.
LEMMA TdrTypes ==
    ASSUME ctrl \in CtrlType
    PROVE  /\ AddressByte \in TdrBytes
           /\ <<"dummy", 0>> \in TdrBytes /\ <<"other", 0>> \in TdrBytes
           /\ <<"data", ctrl.loaded + 1>> \in TdrBytes
<1>1. 0 \in 0 .. UIntModulus /\ 1 \in 0 .. UIntModulus /\ ctrl.loaded + 1 \in 0 .. UIntModulus
  BY CtrlFields, SMT
<1>2. ctrl.addr_low \in 0 .. UIntModulus
  BY <1>1, CtrlFields
<1> QED BY <1>1, <1>2 DEF AddressByte, TdrBytes

\* What TxiAck and TxiNack leave behind.
HandlerTypes == ctrl \in CtrlType /\ rx \in Buffer /\ ackt \in BOOLEAN
                /\ hw \subseteq {"start", "restart", "stop", "byte"}
                /\ tdr \in TdrBytes

LEMMA RestartOrStopTypes ==
    ASSUME HandlerTypes, rx' \in Buffer, NEW c \in CtrlType, RestartOrStop(c)
    PROVE  HandlerTypes'
BY EndFields, Zenon DEF HandlerTypes, RestartOrStop

LEMMA TxiAckTypes ==
    ASSUME HandlerTypes, rdr' \in 0 .. MaxLen, TxiAck
    PROVE  HandlerTypes'
<1>0. CASE hw' = (hw \ {"byte"}) \cup {"restart"} /\ UNCHANGED <<ctrl, rx, tdr, ackt>>
  BY <1>0 DEF HandlerTypes
<1>1. CASE ctrl' = CountAddress(ctrl) /\ SendByte(AddressByte) /\ UNCHANGED <<rx, ackt>>
  BY <1>1, AddressFields, TdrTypes DEF HandlerTypes, SendByte
<1>2. CASE ctrl.remain > 0 /\ ~ctrl.read /\ ctrl' = CountByte(ctrl)
           /\ SendByte(<<"data", ctrl.loaded + 1>>) /\ UNCHANGED <<rx, ackt>>
  BY <1>2, CountByteFields, TdrTypes DEF HandlerTypes, SendByte
<1>3. CASE ctrl' = [ctrl EXCEPT !.do_dummy_read = FALSE] /\ ackt' = (ctrl.remain = 1)
           /\ SendByte(<<"dummy", 0>>) /\ UNCHANGED rx
  BY <1>3, DummyFields, TdrTypes DEF HandlerTypes, SendByte
<1>4. CASE rx' = [rx EXCEPT ![ctrl.loaded] = rdr'] /\ ctrl' = CountByte(ctrl)
           /\ ackt' = (ctrl'.remain = 1 \/ ackt) /\ SendByte(<<"dummy", 0>>)
  BY <1>4, CountByteFields, BufferType, TdrTypes DEF HandlerTypes, SendByte
<1>5. CASE RestartOrStop(ctrl) /\ UNCHANGED rx
  BY <1>5, RestartOrStopTypes DEF HandlerTypes
<1> QED BY <1>0, <1>1, <1>2, <1>3, <1>4, <1>5 DEF TxiAck

LEMMA TxiNackTypes ==
    ASSUME HandlerTypes, rdr' \in 0 .. MaxLen, TxiNack
    PROVE  HandlerTypes'
<1>1. CASE ctrl' = [ctrl EXCEPT !.remain = 0, !.err = TRUE]
           /\ hw' = (hw \ {"byte"}) \cup {"stop"} /\ UNCHANGED <<rx, tdr, ackt>>
  BY <1>1, ErrorFields DEF HandlerTypes
<1>2. CASE rx' = [rx EXCEPT ![ctrl.loaded] = rdr'] /\ RestartOrStop(CountByte(ctrl))
  BY <1>2, CountByteFields, BufferType, RestartOrStopTypes DEF HandlerTypes
<1> QED BY <1>1, <1>2 DEF TxiNack

LEMMA NotifyTypes ==
    ASSUME ThreadTypes, UNCHANGED fresh, NEW bit \in Bits, Notify(bit)
    PROVE  ThreadTypes' /\ UNCHANGED msgs
BY DEF ThreadTypes, Notify

\* The stores of R_SCI_B_I2C_Read, R_SCI_B_I2C_Write and sci_b_i2c_run_hw_master.
LEMMA IssueTypes ==
    ASSUME ctrl \in CtrlType, Msgi \in Msg, Issue
    PROVE  ctrl' \in CtrlType
<1>1. PICK m \in Msg : m = Msgi
  OBVIOUS
<1>2. m.noStop \in BOOLEAN /\ m.len \in 0 .. MaxLen /\ m.read \in BOOLEAN
  BY TransfersAssumption, SMT DEF Msg
<1>3. PICK a \in {0, 1} : a = IF m.read THEN 1 ELSE 0
  OBVIOUS
<1>4. \/ ctrl' = [ctrl EXCEPT !.restart = m.noStop]
      \/ ctrl' = [ctrl EXCEPT !.total = m.len]
      \/ ctrl' = [ctrl EXCEPT !.addr_low = a]
      \/ ctrl' = [ctrl EXCEPT !.read = m.read]
  BY <1>1, <1>3 DEF Issue, Store
<1> QED BY <1>2, <1>4, Zenon DEF CtrlType

LEMMA ResetTypes ==
    ASSUME ctrl \in CtrlType, ResetTrackers
    PROVE  ctrl' \in CtrlType
<1>1. 0 \in 0 .. ByteModulus - 1 /\ 0 \in 0 .. UIntModulus - 1 /\ ctrl.total \in 0 .. UIntModulus - 1
  BY CtrlFields, SMT
<1>2. PICK d \in BOOLEAN : d = (ctrl.do_dummy_read \/ ctrl.read)
  OBVIOUS
<1>3. \/ ctrl' = [ctrl EXCEPT !.addr_loaded = 0]
      \/ ctrl' = [ctrl EXCEPT !.loaded = 0]
      \/ ctrl' = [ctrl EXCEPT !.remain = ctrl.total]
      \/ ctrl' = [ctrl EXCEPT !.err = FALSE]
      \/ ctrl' = [ctrl EXCEPT !.do_dummy_read = FALSE]
      \/ ctrl' = [ctrl EXCEPT !.do_dummy_read = d]
  BY <1>2 DEF ResetTrackers, Store
<1> QED BY <1>1, <1>3, Zenon DEF CtrlType

\* Types is kept by every step.
LEMMA TypesNext ==
    ASSUME Types, [Next]_vars
    PROVE  Types'
<1> USE DEF Types
<1>0. 0 \in 0 .. MaxLen
  BY TransfersAssumption, SMT
<1>1. CASE Transfer
  <2>1. ThreadTypes'
    <3>1. Len(msgs') \in Nat /\ Len(msgs') >= 1
      BY <1>1, TransfersAssumption, SMT DEF Transfer
    <3>2. i' \in 1 .. Len(msgs')
      BY <1>1, <3>1, SMT DEF Transfer
    <3>3. fresh' \in BOOLEAN
      BY <1>1 DEF Transfer, AtRest
    <3> QED BY <1>1, <3>2, <3>3 DEF Transfer, ThreadTypes, Storing
  <2>2. PlanOK'
    <3>1. 1 \in 1 .. Len(msgs') /\ 0 \in 0 .. msgs'[1].len + 2
      <4>1. msgs' \in Seq(Msg) /\ msgs' # <<>>
        BY <1>1, TransfersAssumption DEF Transfer
      <4>2. Len(msgs') \in Nat /\ Len(msgs') >= 1 /\ msgs'[1] \in Msg
        BY <4>1, SMT
      <4>3. msgs'[1].len \in Int /\ msgs'[1].len >= 1
        BY <4>2, TransfersAssumption, SMT DEF Msg
      <4> QED BY <4>2, <4>3, SMT
    <3> QED BY <1>1, <3>1 DEF Transfer, PlanOK
  <2> QED BY <1>1, <2>1, <2>2 DEF Transfer, HardwareTypes
<1>2. CASE Issue
  <2>1. ctrl' \in CtrlType
    BY <1>2, IssueTypes, MessageTypes
  <2>2. rx' \in Buffer
    BY <1>0, <1>2 DEF Issue, HardwareTypes, Buffer
  <2>3. pc' \in Storing
    BY <1>2 DEF Issue, Store, Storing
  <2> QED BY <1>2, <2>1, <2>2, <2>3 DEF Issue, Store, ThreadTypes, HardwareTypes, PlanOK
<1>3. CASE ResetTrackers
  <2>1. ctrl' \in CtrlType
    BY <1>3, ResetTypes
  <2>2. pc' \in Storing
    BY <1>3 DEF ResetTrackers, Store, Storing
  <2> QED BY <1>3, <2>1, <2>2 DEF ResetTrackers, Store, ThreadTypes, HardwareTypes, PlanOK
<1>a. CASE Enable
  BY <1>a DEF Enable, Storing, ThreadTypes, HardwareTypes, PlanOK
<1>b. CASE RunHwMaster
  <2>1. ctrl' \in CtrlType
    BY <1>b, RestartedFields, AddressFields DEF RunHwMaster
  <2>2. HardwareTypes'
    BY <1>b, TdrTypes DEF RunHwMaster, HardwareTypes
  <2> QED BY <1>b, <2>1, <2>2 DEF RunHwMaster, ThreadTypes, PlanOK
<1>4. CASE WaitComplete
  BY <1>4 DEF WaitComplete, ThreadTypes, HardwareTypes, PlanOK
<1>5. CASE Timeout
  BY <1>5 DEF Timeout, ThreadTypes, HardwareTypes, PlanOK
<1>6. CASE NextMessage
  <2>1. i' \in 1 .. Len(msgs)
    <3>1. Len(msgs) \in Nat /\ i \in 1 .. Len(msgs)
      BY MessageTypes DEF ThreadTypes
    <3>2. i' = i \/ (i < Len(msgs) /\ i' = i + 1)
      BY <1>6 DEF NextMessage
    <3> QED BY <3>1, <3>2, SMT
  <2>2. pc' \in {"idle", "issue"} /\ ok' \in BOOLEAN
    BY <1>6 DEF NextMessage, ThreadTypes
  <2> QED BY <1>6, <2>1, <2>2 DEF NextMessage, ThreadTypes, Storing, HardwareTypes, PlanOK
<1>7. CASE ByteDone
  <2>1. HandlerTypes
    BY DEF HandlerTypes, HardwareTypes
  <2>2. rdr' \in 0 .. MaxLen
    <3>1. CASE tdr[1] # "dummy"
      BY <1>0, <1>7, <3>1 DEF ByteDone
    <3>2. CASE tdr[1] = "dummy"
      <4>1. rdr' = IF rdr < MaxLen THEN rdr + 1 ELSE rdr
        BY <1>7, <3>2 DEF ByteDone
      <4> QED BY <4>1, TransfersAssumption, SMT DEF HardwareTypes
    <3> QED BY <3>1, <3>2
  <2>3. HandlerTypes'
    BY <1>7, <2>1, <2>2, TxiAckTypes, TxiNackTypes DEF ByteDone
  <2>4. PlanOK'
    <3>1. PICK item : Seen(item, FALSE) \/ Seen(item, TRUE)
      BY <1>7 DEF ByteDone
    <3>2. UNCHANGED msgs
      BY <1>7 DEF ByteDone, threadVars
    <3> QED BY <3>1, <3>2, SeenType
  <2>5. ThreadTypes'
    BY <1>7 DEF ByteDone, threadVars, ThreadTypes
  <2> QED BY <1>7, <2>2, <2>3, <2>4, <2>5 DEF ByteDone, HandlerTypes, HardwareTypes
<1>8. ASSUME NEW condition \in {"start", "restart", "stop"}, ConditionDone(condition)
      PROVE  Types'
  <2>1. ThreadTypes' /\ UNCHANGED msgs
    <3>1. \/ \E bit \in Bits : Notify(bit)
          \/ UNCHANGED <<threadVars, event>>
      BY <1>8, Zenon DEF ConditionDone, Bits
    <3>2. UNCHANGED fresh
      BY <1>8 DEF ConditionDone
    <3> QED BY <3>1, <3>2, NotifyTypes DEF threadVars, ThreadTypes
  <2>2. ctrl' \in CtrlType
    BY <1>8, AddressFields DEF ConditionDone
  <2>3. HardwareTypes'
    <3>1. tdr' \in {tdr, AddressByte, <<"other", 0>>} /\ te' \in BOOLEAN
      BY <1>8 DEF ConditionDone, HardwareTypes
    <3>2. hw' \subseteq hw \cup {"byte"}
      BY <1>8 DEF ConditionDone
    <3> QED BY <1>8, <3>1, <3>2, TdrTypes DEF ConditionDone, HardwareTypes
  <2>4. PlanOK'
    <3>1. PICK item : Seen(item, FALSE)
      BY <1>8, Zenon DEF ConditionDone
    <3> QED BY <2>1, <3>1, SeenType
  <2> QED BY <2>1, <2>2, <2>3, <2>4
<1>9. CASE UNCHANGED vars
  BY <1>9 DEF vars, threadVars, ThreadTypes, HardwareTypes, PlanOK
<1> QED BY <1>1, <1>2, <1>3, <1>a, <1>b, <1>4, <1>5, <1>6, <1>7, <1>8, <1>9
        DEF Next, Thread, Hardware
-----------------------------------------------------------------------------
(* The monitor, as an undisturbed transfer drives it.                      *)

LEMMA Items ==
    ASSUME NEW m \in Msg
    PROVE  /\ m.len \in Int /\ 1 <= m.len /\ m.len <= MaxLen
           /\ m.read \in BOOLEAN /\ m.noStop \in BOOLEAN
           /\ Item(m, 0) = Start
           /\ Item(m, 1) = <<"addr", IF m.read THEN 1 ELSE 0>>
           /\ \A k \in 1 .. m.len : /\ ~m.read => Item(m, k + 1) = <<"data", k>>
                                    /\ m.read /\ k < m.len => Item(m, k + 1) = <<"rx", k>>
                                    /\ m.read /\ k = m.len => Item(m, k + 1) = <<"rxlast", k>>
           /\ Item(m, m.len + 2) = IF m.noStop THEN Restart ELSE Stop
<1>1. m.len \in Int /\ 1 <= m.len /\ m.len <= MaxLen /\ m.read \in BOOLEAN /\ m.noStop \in BOOLEAN
  BY TransfersAssumption, SMT DEF Msg
<1>2. Item(m, 0) = Start /\ Item(m, 1) = <<"addr", IF m.read THEN 1 ELSE 0>>
  BY <1>1, SMT DEF Item
<1>3. ASSUME NEW k \in 1 .. m.len
      PROVE  /\ ~m.read => Item(m, k + 1) = <<"data", k>>
             /\ m.read /\ k < m.len => Item(m, k + 1) = <<"rx", k>>
             /\ m.read /\ k = m.len => Item(m, k + 1) = <<"rxlast", k>>
  <2>1. k + 1 # 0 /\ k + 1 # 1 /\ k + 1 \in 2 .. m.len + 1 /\ k + 1 # m.len + 2 /\ (k + 1) - 1 = k
    BY <1>1, SMT
  <2>2. Item(m, k + 1) = IF ~m.read THEN <<"data", k>>
                         ELSE IF k + 1 <= m.len THEN <<"rx", k>> ELSE <<"rxlast", k>>
    BY <2>1 DEF Item
  <2>3. (k < m.len => k + 1 <= m.len) /\ (k = m.len => ~(k + 1 <= m.len))
    BY <1>1, SMT
  <2> QED BY <2>2, <2>3
<1>4. Item(m, m.len + 2) = IF m.noStop THEN Restart ELSE Stop
  <2>1. m.len + 2 # 0 /\ m.len + 2 # 1 /\ m.len + 2 \notin 2 .. m.len + 1
    BY <1>1, SMT
  <2> QED BY <2>1 DEF Item
<1> QED BY <1>1, <1>2, <1>3, <1>4

\* The item that is due appears, is refused, or was the last one.
LEMMA SeenDue ==
    ASSUME ThreadTypes, NEW k \in 0 .. Msgi.len + 2, plan = <<i, k>>
    PROVE  /\ Seen(Item(Msgi, k), FALSE) =>
                plan' = IF k = Msgi.len + 2 THEN After(i) ELSE <<i, k + 1>>
           /\ Seen(Item(Msgi, k), TRUE) => plan' = StopOnly
<1>1. plan[1] = i /\ plan[2] = k
  OBVIOUS
<1>2. i # 0
  BY MessageTypes, SMT DEF ThreadTypes
<1>3. plan \notin {Over, StopOnly, Broken}
  BY <1>1, <1>2 DEF Over, StopOnly, Broken
<1> QED BY <1>1, <1>3 DEF Seen, Advance, Msgi

LEMMA SeenStop ==
    ASSUME plan = StopOnly, Seen(Stop, FALSE)
    PROVE  plan' = Over
BY DEF Seen, StopOnly, Over, Broken

\* The STOP, the RESTART and the START that STI reports.
LEMMA ConditionSeen ==
    ASSUME NEW condition \in {"start", "restart", "stop"}, ConditionDone(condition)
    PROVE  Seen(IF condition = "start" THEN Start
                ELSE IF condition = "restart" THEN Restart ELSE Stop, FALSE)
BY DEF ConditionDone, Start, Restart, Stop
-----------------------------------------------------------------------------
(* The handlers, in an undisturbed transfer: one lemma for each thing the  *)
(* peripheral can be working on.                                           *)

\* The START is made: the address follows.
LEMMA StartingNext ==
    ASSUME Types, Moving, Starting, Hardware
    PROVE  Moving' /\ UNCHANGED <<threadVars, event>>
<1>0. ctrl \in CtrlType /\ Msgi \in Msg /\ ThreadTypes
  BY MessageTypes DEF Types
<1>1. ConditionDone("start")
  BY DEF Hardware, ByteDone, ConditionDone, Starting
<1>2. ~ctrl.err /\ ctrl.addr_loaded # 1 /\ ctrl.addr_loaded = 0
  BY DEF Starting
<1>3. /\ tdr' = AddressByte /\ hw' = (hw \ {"start"}) \cup {"byte"}
      /\ ctrl' = CountAddress(ctrl)
      /\ UNCHANGED <<threadVars, event, te>> /\ UNCHANGED <<rx, ackt, rdr, fresh>>
  BY <1>1, <1>2 DEF ConditionDone
<1>4. /\ ctrl'.restart = ctrl.restart /\ ctrl'.total = ctrl.total /\ ctrl'.read = ctrl.read
      /\ ctrl'.addr_low = ctrl.addr_low
      /\ ctrl'.restarted = ctrl.restarted /\ ctrl'.loaded = ctrl.loaded
      /\ ctrl'.remain = ctrl.remain /\ ctrl'.addr_loaded = 1
      /\ ctrl'.err = ctrl.err /\ ctrl'.do_dummy_read = ctrl.do_dummy_read
  BY <1>0, <1>2, <1>3, AddressFields
<1>5. plan' = <<i, 1>>
  <2>1. Seen(Item(Msgi, 0), FALSE)
    BY <1>0, <1>1, Items, ConditionSeen
  <2>2. 0 \in 0 .. Msgi.len + 2 /\ 0 # Msgi.len + 2 /\ 0 + 1 = 1
    BY <1>0, Items, SMT
  <2> QED BY <1>0, <2>1, <2>2, SeenDue DEF Starting
<1>6. hw' = {"byte"}
  BY <1>3 DEF Starting
<1>7. UNCHANGED <<msgs, i>>
  BY <1>3 DEF threadVars
<1>8. Described'
  BY <1>4, <1>7 DEF Moving, Described, Msgi
<1>9. Addressing'
  BY <1>3, <1>4, <1>5, <1>6, <1>7 DEF Starting, Addressing, AddressByte
<1> QED BY <1>3, <1>8, <1>9 DEF Moving

\* A refused address or write byte: the STOP is asked for.
LEMMA RefusedNext ==
    ASSUME Types, Moving, hw = {"byte"}, ~ctrl.restarted,
           ~Reading, TxiNack, plan' = StopOnly, ctrl.loaded <= ctrl.total,
           UNCHANGED <<threadVars, event, te>>
    PROVE  Moving'
<1>0. ctrl \in CtrlType
  BY DEF Types
<1>1. /\ ctrl' = [ctrl EXCEPT !.remain = 0, !.err = TRUE]
      /\ hw' = (hw \ {"byte"}) \cup {"stop"}
  BY DEF TxiNack, Reading
<1>2. /\ ctrl'.restart = ctrl.restart /\ ctrl'.total = ctrl.total /\ ctrl'.read = ctrl.read
      /\ ctrl'.addr_low = ctrl.addr_low
      /\ ctrl'.restarted = ctrl.restarted /\ ctrl'.loaded = ctrl.loaded
      /\ ctrl'.remain = 0 /\ ctrl'.err = TRUE
  BY <1>0, <1>1, ErrorFields
<1>3. hw' = {"stop"}
  BY <1>1
<1>4. Described'
  BY <1>2 DEF Moving, Described, Msgi, threadVars
<1>5. Refused'
  BY <1>2, <1>3 DEF Refused, StopOnly
<1> QED BY <1>4, <1>5 DEF Moving

\* The last byte of a message: its RESTART or STOP is asked for.
LEMMA EndingNext ==
    ASSUME Types, Moving, hw = {"byte"},
           NEW c \in CtrlType, RestartOrStop(c),
           c.restart = ctrl.restart, c.total = ctrl.total, c.read = ctrl.read,
           c.addr_low = ctrl.addr_low,
           c.addr_loaded = 1, c.remain = 0, c.loaded = c.total, ~c.restarted, ~c.err,
           ctrl.read => Exact(ctrl.total)',
           plan' = <<i, ctrl.total + 2>>, UNCHANGED <<threadVars, event, te>>
    PROVE  Moving'
<1>1. ctrl' = [c EXCEPT !.restarted = c.restart \/ c.restarted]
  BY DEF RestartOrStop
<1>2. /\ ctrl'.restart = c.restart /\ ctrl'.total = c.total /\ ctrl'.read = c.read
      /\ ctrl'.addr_low = c.addr_low
      /\ ctrl'.restarted = (c.restart \/ c.restarted)
      /\ ctrl'.loaded = c.loaded /\ ctrl'.remain = c.remain
      /\ ctrl'.addr_loaded = c.addr_loaded /\ ctrl'.err = c.err
  BY <1>1, EndFields
<1>3. hw' = {IF ctrl.restart THEN "restart" ELSE "stop"}
  BY DEF RestartOrStop
<1>4. Described'
  BY <1>2 DEF Moving, Described, Msgi, threadVars
<1>5. ctrl'.restarted = ctrl'.restart
  BY <1>2, CtrlFields
<1>6. Ending'
  BY <1>2, <1>3, <1>5 DEF Ending, threadVars
<1> QED BY <1>4, <1>6 DEF Moving

\* The address is acknowledged or refused.
LEMMA AddressingNext ==
    ASSUME Types, Moving, Addressing, Hardware
    PROVE  Moving' /\ UNCHANGED <<threadVars, event>>
<1>0. ctrl \in CtrlType /\ Msgi \in Msg /\ ThreadTypes
  BY MessageTypes DEF Types
<1>1. ByteDone
  BY DEF Hardware, ConditionDone, Addressing
<1>2. UNCHANGED <<threadVars, event, te, fresh>> /\ UNCHANGED <<msgs, i>>
  BY <1>1 DEF ByteDone, threadVars
<1>3. tdr[1] # "dummy" /\ tdr = Item(Msgi, 1)
  BY <1>0, Items DEF Addressing, AddressByte, Moving, Described
<1>4. /\ rdr' = 0
      /\ \/ TxiAck /\ Seen(tdr, FALSE)
         \/ TxiNack /\ Seen(tdr, TRUE)
  BY <1>1, <1>3 DEF ByteDone
<1>5. 1 \in 0 .. Msgi.len + 2 /\ 1 # Msgi.len + 2 /\ 1 + 1 = 2
  BY <1>0, Items, SMT
<1>6. CASE TxiNack /\ Seen(tdr, TRUE)
  <2>1. plan' = StopOnly
    BY <1>0, <1>3, <1>5, <1>6, SeenDue DEF Addressing
  <2>2. ctrl.loaded <= ctrl.total
    BY <1>0, CtrlFields, SMT DEF Addressing
  <2> QED BY <1>2, <1>6, <2>1, <2>2, RefusedNext DEF Addressing, Reading
<1>7. CASE TxiAck /\ Seen(tdr, FALSE)
  <2>1. plan' = <<i, 2>>
    BY <1>0, <1>3, <1>5, <1>7, SeenDue DEF Addressing
  <2>2. ctrl.addr_loaded = 1 /\ ctrl.remain > 0 /\ ctrl.remain = ctrl.total
    BY <1>0, Items, CtrlFields, SMT DEF Addressing, Moving, Described
  <2>3. CASE ~ctrl.read
    <3>1. /\ ctrl' = CountByte(ctrl) /\ tdr' = <<"data", ctrl.loaded + 1>> /\ UNCHANGED hw
      BY <1>0, <1>7, <2>2, <2>3, CtrlFields, SMT DEF TxiAck, SendByte
    <3>2. /\ ctrl'.restart = ctrl.restart /\ ctrl'.total = ctrl.total /\ ctrl'.read = ctrl.read
          /\ ctrl'.addr_low = ctrl.addr_low
          /\ ctrl'.restarted = ctrl.restarted /\ ctrl'.err = ctrl.err /\ ctrl'.addr_loaded = 1
      BY <1>0, <2>2, <3>1, CountByteFields
    <3>3. ctrl'.loaded = 1 /\ ctrl'.remain = ctrl.total - 1
      <4>1. ctrl.loaded + 1 < UIntModulus /\ ctrl.loaded = 0
        BY <1>0, <2>2, CtrlFields, SMT DEF Addressing
      <4> QED BY <1>0, <2>2, <3>1, <4>1, CountByteFields
    <3>4. Described'
      BY <1>2, <3>2 DEF Moving, Described, Msgi
    <3>5. tdr' = <<"data", ctrl'.loaded>> /\ plan' = <<i, ctrl'.loaded + 1>>
      BY <2>1, <3>1, <3>3 DEF Addressing
    <3>6. ctrl'.loaded >= 1 /\ ctrl'.loaded + ctrl'.remain = ctrl'.total
      BY <1>0, <3>2, <3>3, CtrlFields, SMT
    <3>7. WritingByte'
      BY <1>2, <2>3, <3>1, <3>2, <3>5, <3>6 DEF WritingByte, Addressing
    <3> QED BY <1>2, <3>4, <3>7 DEF Moving
  <2>4. CASE ctrl.read
    <3>0. ctrl.do_dummy_read
      BY <2>4 DEF Addressing
    <3>1. /\ ctrl' = [ctrl EXCEPT !.do_dummy_read = FALSE]
          /\ ackt' = (ctrl.remain = 1)
          /\ tdr' = <<"dummy", 0>> /\ UNCHANGED hw /\ UNCHANGED rx
      BY <1>0, <1>7, <2>2, <2>4, <3>0, CtrlFields, SMT DEF TxiAck, SendByte
    <3>2. /\ ctrl'.restart = ctrl.restart /\ ctrl'.total = ctrl.total /\ ctrl'.read = ctrl.read
          /\ ctrl'.addr_low = ctrl.addr_low
          /\ ctrl'.restarted = ctrl.restarted /\ ctrl'.err = ctrl.err /\ ctrl'.addr_loaded = 1
          /\ ctrl'.loaded = ctrl.loaded /\ ctrl'.remain = ctrl.remain
          /\ ctrl'.do_dummy_read = FALSE
      BY <1>0, <2>2, <3>1, DummyFields
    <3>4. Described'
      BY <1>2, <3>2 DEF Moving, Described, Msgi
    <3>5. /\ ctrl'.loaded = 0 /\ rdr' = ctrl'.loaded /\ plan' = <<i, ctrl'.loaded + 2>>
          /\ ctrl'.remain >= 1 /\ ctrl'.loaded + ctrl'.remain = ctrl'.total
      BY <1>0, <1>4, <2>1, <2>2, <3>2, CtrlFields, SMT DEF Addressing
    <3>6. Exact(ctrl.loaded)'
      BY <3>5, SMT DEF Exact
    <3>7. ackt' = (ctrl'.remain = 1) /\ tdr'[1] = "dummy" /\ hw' = {"byte"}
      BY <3>1, <3>2 DEF Addressing
    <3>8. ctrl'.read /\ ~ctrl'.do_dummy_read /\ ~ctrl'.restarted /\ ~ctrl'.err
      BY <2>4, <3>2 DEF Addressing
    <3>9. ReadingByte'
      BY <1>2, <3>2, <3>5, <3>6, <3>7, <3>8 DEF ReadingByte, Reading
    <3> QED BY <1>2, <3>4, <3>9 DEF Moving
  <2> QED BY <1>2, <2>3, <2>4
<1> QED BY <1>2, <1>4, <1>6, <1>7

\* A byte of a write is acknowledged or refused.
LEMMA WritingNext ==
    ASSUME Types, Moving, WritingByte, Hardware
    PROVE  Moving' /\ UNCHANGED <<threadVars, event>>
<1>0. ctrl \in CtrlType /\ Msgi \in Msg /\ ThreadTypes
  BY MessageTypes DEF Types
<1>1. ByteDone
  BY DEF Hardware, ConditionDone, WritingByte
<1>2. UNCHANGED <<threadVars, event, te, fresh>> /\ UNCHANGED <<msgs, i>>
  BY <1>1 DEF ByteDone, threadVars
<1>a. /\ ctrl.loaded \in 1 .. Msgi.len /\ ctrl.loaded + ctrl.remain = ctrl.total
      /\ Msgi.len = ctrl.total /\ ~Msgi.read
      /\ ctrl.loaded <= MaxLen /\ ctrl.loaded <= ctrl.total /\ ctrl.remain \in Int /\ ctrl.remain >= 0
  BY <1>0, Items, CtrlFields, SMT DEF WritingByte, Moving, Described
<1>3. tdr[1] # "dummy" /\ tdr = Item(Msgi, ctrl.loaded + 1)
  BY <1>0, <1>a, Items DEF WritingByte
<1>4. \/ TxiAck /\ Seen(tdr, FALSE)
      \/ TxiNack /\ Seen(tdr, TRUE)
  BY <1>1, <1>3 DEF ByteDone
<1>5. /\ ctrl.loaded + 1 \in 0 .. Msgi.len + 2 /\ ctrl.loaded + 1 # Msgi.len + 2
      /\ (ctrl.loaded + 1) + 1 = ctrl.loaded + 2
  BY <1>0, <1>a, Items, SMT
<1>6. CASE TxiNack /\ Seen(tdr, TRUE)
  <2>1. plan' = StopOnly
    BY <1>0, <1>3, <1>5, <1>6, SeenDue DEF WritingByte
  <2> QED BY <1>2, <1>6, <1>a, <2>1, RefusedNext DEF WritingByte, Reading
<1>7. CASE TxiAck /\ Seen(tdr, FALSE)
  <2>1. plan' = <<i, ctrl.loaded + 2>>
    BY <1>0, <1>3, <1>5, <1>7, SeenDue DEF WritingByte
  <2>2. ctrl.addr_loaded = 1 /\ ~ctrl.read
    BY DEF WritingByte
  <2>3. CASE ctrl.remain > 0
    <3>1. /\ ctrl' = CountByte(ctrl) /\ tdr' = <<"data", ctrl.loaded + 1>> /\ UNCHANGED hw
      BY <1>7, <1>a, <2>2, <2>3, SMT DEF TxiAck, SendByte
    <3>2. /\ ctrl'.restart = ctrl.restart /\ ctrl'.total = ctrl.total /\ ctrl'.read = ctrl.read
          /\ ctrl'.addr_low = ctrl.addr_low
          /\ ctrl'.restarted = ctrl.restarted /\ ctrl'.err = ctrl.err /\ ctrl'.addr_loaded = 1
      BY <1>0, <2>2, <3>1, CountByteFields
    <3>3. ctrl'.loaded = ctrl.loaded + 1 /\ ctrl'.remain = ctrl.remain - 1
      <4>1. ctrl.loaded + 1 < UIntModulus
        BY <1>0, <1>a, <2>3, CtrlFields, SMT
      <4> QED BY <1>0, <2>3, <3>1, <4>1, CountByteFields
    <3>4. Described'
      BY <1>2, <3>2 DEF Moving, Described, Msgi
    <3>5. plan' = <<i, ctrl'.loaded + 1>>
      BY <1>5, <2>1, <3>3
    <3>6. ctrl'.loaded >= 1 /\ ctrl'.loaded + ctrl'.remain = ctrl'.total
      BY <1>0, <1>a, <3>2, <3>3, CtrlFields, SMT
    <3>7. WritingByte'
      BY <1>2, <3>1, <3>2, <3>3, <3>5, <3>6 DEF WritingByte
    <3> QED BY <1>2, <3>4, <3>7 DEF Moving
  <2>4. CASE ctrl.remain = 0
    <3>1. RestartOrStop(ctrl)
      BY <1>7, <2>2, <2>4, SMT DEF TxiAck
    <3>2. ctrl.loaded = ctrl.total
      BY <1>0, <1>a, <2>4, CtrlFields, SMT
    <3> QED BY <1>0, <1>2, <2>1, <2>2, <2>4, <3>1, <3>2, EndingNext DEF WritingByte
  <2> QED BY <1>2, <1>a, <2>3, <2>4, SMT
<1> QED BY <1>2, <1>4, <1>6, <1>7

\* A byte of a read has arrived: it goes to its place in the buffer.
LEMMA ReadingNext ==
    ASSUME Types, Moving, ReadingByte, Hardware
    PROVE  Moving' /\ UNCHANGED <<threadVars, event>>
<1>0. ctrl \in CtrlType /\ Msgi \in Msg /\ ThreadTypes /\ rx \in Buffer /\ rdr \in 0 .. MaxLen
  BY MessageTypes DEF Types, HardwareTypes
<1>1. ByteDone
  BY DEF Hardware, ConditionDone, ReadingByte
<1>2. UNCHANGED <<threadVars, event, te, fresh>> /\ UNCHANGED <<msgs, i>>
  BY <1>1 DEF ByteDone, threadVars
<1>3. /\ ctrl.read /\ ~ctrl.do_dummy_read /\ ctrl.addr_loaded = 1
      /\ Msgi.len = ctrl.total /\ Msgi.read
      /\ ctrl.loaded \in Int /\ 0 <= ctrl.loaded /\ ctrl.loaded < ctrl.total
      /\ ctrl.total \in Int /\ ctrl.total <= MaxLen /\ MaxLen \in Int
      /\ ctrl.remain \in Int /\ ctrl.remain >= 1 /\ ctrl.loaded + ctrl.remain = ctrl.total
      /\ ctrl.loaded + 1 < UIntModulus
  BY <1>0, Items, CtrlFields, SMT DEF ReadingByte, Reading, Moving, Described
<1>4. rdr' = ctrl.loaded + 1
  <2>1. rdr' = IF rdr < MaxLen THEN rdr + 1 ELSE rdr
    BY <1>1 DEF ByteDone, ReadingByte
  <2> QED BY <1>3, <2>1, SMT DEF ReadingByte
<1>5. /\ Seen(<<IF ackt THEN "rxlast" ELSE "rx", rdr'>>, FALSE)
      /\ IF ackt THEN TxiNack ELSE TxiAck
  BY <1>1 DEF ByteDone, ReadingByte
<1>6. /\ CountByte(ctrl) \in CtrlType
      /\ CountByte(ctrl).restart = ctrl.restart /\ CountByte(ctrl).restarted = ctrl.restarted
      /\ CountByte(ctrl).read = ctrl.read /\ CountByte(ctrl).total = ctrl.total
      /\ CountByte(ctrl).addr_low = ctrl.addr_low
      /\ CountByte(ctrl).addr_loaded = 1 /\ CountByte(ctrl).err = ctrl.err
      /\ CountByte(ctrl).do_dummy_read = ctrl.do_dummy_read
      /\ CountByte(ctrl).remain = ctrl.remain - 1 /\ CountByte(ctrl).loaded = ctrl.loaded + 1
  <2>1. ctrl.remain > 0
    BY <1>3, SMT
  <2> QED BY <1>0, <1>3, <2>1, CountByteFields
<1>7. ASSUME rx' = [rx EXCEPT ![ctrl.loaded] = rdr']
      PROVE  \A k \in 0 .. (ctrl.loaded + 1) - 1 : rx'[k] = k + 1
  <2>1. \A k \in 0 .. ctrl.loaded - 1 : rx[k] = k + 1
    BY DEF ReadingByte, Exact
  <2>2. DOMAIN rx = 0 .. MaxLen - 1
    BY <1>0 DEF Buffer
  <2>3. TAKE k \in 0 .. (ctrl.loaded + 1) - 1
  <2>4. k \in 0 .. MaxLen - 1 /\ (k = ctrl.loaded \/ k \in 0 .. ctrl.loaded - 1)
    BY <1>3, SMT
  <2>5. rx'[k] = IF k = ctrl.loaded THEN rdr' ELSE rx[k]
    BY <1>7, <2>2, <2>4
  <2> QED BY <1>4, <2>1, <2>4, <2>5
<1>8. plan' = <<i, ctrl.loaded + 3>>
  <2>1. ackt <=> ctrl.remain = 1
    BY DEF ReadingByte
  <2>2. <<IF ackt THEN "rxlast" ELSE "rx", rdr'>> = Item(Msgi, (ctrl.loaded + 1) + 1)
    <3>1. ctrl.loaded + 1 \in 1 .. Msgi.len
      BY <1>3, SMT
    <3>2. CASE ackt
      <4>1. ctrl.loaded + 1 = Msgi.len
        BY <1>3, <2>1, <3>2, SMT
      <4> QED BY <1>0, <1>3, <1>4, <3>1, <3>2, <4>1, Items
    <3>3. CASE ~ackt
      <4>1. ctrl.loaded + 1 < Msgi.len
        BY <1>3, <2>1, <3>3, SMT
      <4> QED BY <1>0, <1>3, <1>4, <3>1, <3>3, <4>1, Items
    <3> QED BY <3>2, <3>3
  <2>3. /\ (ctrl.loaded + 1) + 1 = ctrl.loaded + 2 /\ ctrl.loaded + 2 \in 0 .. Msgi.len + 2
        /\ ctrl.loaded + 2 # Msgi.len + 2 /\ (ctrl.loaded + 2) + 1 = ctrl.loaded + 3
    BY <1>3, SMT
  <2>4. Seen(Item(Msgi, ctrl.loaded + 2), FALSE)
    BY <1>5, <2>2, <2>3
  <2> QED BY <1>0, <2>3, <2>4, SeenDue DEF ReadingByte
<1>9. CASE ackt
  <2>1. rx' = [rx EXCEPT ![ctrl.loaded] = rdr'] /\ RestartOrStop(CountByte(ctrl))
    BY <1>3, <1>5, <1>9 DEF TxiNack
  <2>2. ctrl.remain = 1 /\ ~ctrl.restarted /\ ~ctrl.err
    BY <1>9 DEF ReadingByte
  <2>3. /\ ctrl.loaded + 1 = ctrl.total /\ ctrl.remain - 1 = 0
        /\ ctrl.loaded + 3 = ctrl.total + 2
    BY <1>3, <2>2, SMT
  <2>4. PICK c \in CtrlType : c = CountByte(ctrl)
    BY <1>6
  <2>5. /\ RestartOrStop(c) /\ c.restart = ctrl.restart /\ c.total = ctrl.total
        /\ c.read = ctrl.read /\ c.addr_low = ctrl.addr_low /\ c.addr_loaded = 1 /\ c.remain = 0 /\ c.loaded = c.total
        /\ ~c.restarted /\ ~c.err
    BY <1>6, <2>1, <2>2, <2>3, <2>4
  <2>6. ctrl'.total = c.total
    BY <2>5, EndFields DEF RestartOrStop
  <2>7. Exact(ctrl.total)'
    BY <1>7, <2>1, <2>3, <2>5, <2>6 DEF Exact
  <2>8. plan' = <<i, ctrl.total + 2>> /\ hw = {"byte"}
    BY <1>8, <2>3 DEF ReadingByte
  <2> QED BY <1>2, <2>5, <2>7, <2>8, EndingNext
<1>10. CASE ~ackt
  <2>1. ctrl.remain # 1 /\ ~ctrl.restarted /\ ~ctrl.err
    BY <1>10 DEF ReadingByte
  <2>2. ctrl.remain > 0 /\ ctrl.remain # 0
    BY <1>3, SMT
  <2>3. /\ rx' = [rx EXCEPT ![ctrl.loaded] = rdr'] /\ ctrl' = CountByte(ctrl)
        /\ ackt' = (ctrl'.remain = 1 \/ ackt) /\ tdr' = <<"dummy", 0>> /\ UNCHANGED hw
    BY <1>3, <1>5, <1>10, <2>2 DEF TxiAck, SendByte
  <2>4. /\ plan' = <<i, ctrl'.loaded + 2>> /\ rdr' = ctrl'.loaded
        /\ ctrl'.remain >= 1 /\ ctrl'.loaded + ctrl'.remain = ctrl'.total
    <3>1. (ctrl.loaded + 1) + 2 = ctrl.loaded + 3
      BY <1>3, SMT
    <3>2. ctrl'.remain >= 1 /\ ctrl'.loaded + ctrl'.remain = ctrl'.total
      BY <1>3, <1>6, <2>1, <2>3, SMT
    <3> QED BY <1>4, <1>6, <1>8, <2>3, <3>1, <3>2
  <2>5. Exact(ctrl.loaded)'
    BY <1>6, <1>7, <2>3 DEF Exact
  <2>6. ackt' = (ctrl'.remain = 1) /\ tdr'[1] = "dummy" /\ hw' = {"byte"}
    BY <1>10, <2>3 DEF ReadingByte
  <2>7. ReadingByte'
    BY <1>2, <1>3, <1>6, <2>1, <2>3, <2>4, <2>5, <2>6 DEF ReadingByte, Reading
  <2>8. Described'
    BY <1>2, <1>6, <2>3 DEF Moving, Described, Msgi
  <2> QED BY <1>2, <2>7, <2>8 DEF Moving
<1> QED BY <1>9, <1>10

\* The RESTART or the STOP is made: the thread is told that the message is over.
LEMMA EndingOver ==
    ASSUME Types, Moving, Ending, Hardware
    PROVE  UNCHANGED fresh /\ \E bit \in Bits : Notify(bit) /\ MessageOver(bit)'
<1>0. ctrl \in CtrlType /\ Msgi \in Msg /\ ThreadTypes
  BY MessageTypes DEF Types
<1>a. PICK bit \in Bits : bit = IF ctrl.read THEN "RX_COMPLETE" ELSE "TX_COMPLETE"
  BY DEF Bits
<1>b. PICK condition \in {"restart", "stop"} : condition = IF ctrl.restart THEN "restart" ELSE "stop"
  OBVIOUS
<1>1. ConditionDone(condition)
  <2>1. PICK c \in {"start", "restart", "stop"} : ConditionDone(c)
    BY <1>b DEF Hardware, ByteDone, Ending
  <2>2. c \in hw
    BY <2>1 DEF ConditionDone
  <2> QED BY <1>b, <2>1, <2>2 DEF Ending
<1>2. ~ctrl.err /\ ctrl.addr_loaded = 1 /\ ctrl.remain = 0
  BY DEF Ending
<1>3. /\ te' = (te /\ ctrl.restarted) /\ Notify(bit) /\ hw' = hw \ {condition}
      /\ UNCHANGED <<ctrl, tdr>> /\ UNCHANGED <<rx, ackt, rdr, fresh>>
  BY <1>1, <1>2, <1>a DEF ConditionDone
<1>4. UNCHANGED <<msgs, i>> /\ hw' = {}
  BY <1>3, <1>b DEF Notify, Ending
<1>5. plan' = After(i)
  <2>1. Msgi.len = ctrl.total /\ Msgi.noStop = ctrl.restart
    BY DEF Moving, Described
  <2>2. Seen(Item(Msgi, Msgi.len + 2), FALSE)
    BY <1>0, <1>1, <1>b, <2>1, Items, ConditionSeen
  <2>3. Msgi.len + 2 \in 0 .. Msgi.len + 2
    BY <1>0, Items, SMT
  <2> QED BY <1>0, <2>1, <2>2, <2>3, SeenDue DEF Ending
<1>6. ctrl.loaded + ctrl.remain <= ctrl.total
  BY <1>0, <1>2, CtrlFields, SMT DEF Ending
<1>7. bit # "ABORTED"
  BY <1>a
<1>8. MessageOver(bit)'
  <2>1. After(i)' = After(i) /\ Msgi' = Msgi
    BY <1>4 DEF After, First, NeedsStart, Msgi
  <2>2. ctrl.restarted = Msgi.noStop /\ (ctrl.restarted => te')
    BY <1>3 DEF Moving, Described, Ending
  <2>3. (Msgi.read => Exact(Msgi.len))'
    BY <1>3, <2>1 DEF Moving, Described, Ending, Exact
  <2> QED BY <1>3, <1>4, <1>5, <1>6, <1>7, <2>1, <2>2, <2>3 DEF MessageOver
<1> QED BY <1>3, <1>7, <1>8

\* The STOP after a refused byte is made: the thread is told.
LEMMA RefusedOver ==
    ASSUME Types, Moving, Refused, Hardware
    PROVE  UNCHANGED fresh /\ \E bit \in Bits : Notify(bit) /\ MessageOver(bit)'
<1>0. ctrl \in CtrlType
  BY DEF Types
<1>1. ConditionDone("stop")
  BY DEF Hardware, ByteDone, ConditionDone, Refused
<1>2. /\ Notify("ABORTED") /\ hw' = hw \ {"stop"} /\ UNCHANGED ctrl /\ UNCHANGED fresh
  BY <1>1 DEF ConditionDone, Refused
<1>3. plan' = Over
  BY <1>1, ConditionSeen, SeenStop DEF Refused
<1>4. hw' = {} /\ ctrl.loaded + ctrl.remain <= ctrl.total
  BY <1>0, <1>2, CtrlFields, SMT DEF Refused
<1>5. MessageOver("ABORTED")'
  BY <1>2, <1>3, <1>4 DEF MessageOver, Refused, Over
<1> QED BY <1>2, <1>5 DEF Bits

\* While a message moves, the handlers move it on or tell the thread.
LEMMA MovingNext ==
    ASSUME Types, Moving, Hardware
    PROVE  \/ Moving' /\ UNCHANGED <<threadVars, event>>
           \/ \E bit \in Bits : Notify(bit) /\ MessageOver(bit)'
BY StartingNext, AddressingNext, WritingNext, ReadingNext, EndingOver, RefusedOver DEF Moving
-----------------------------------------------------------------------------
(* The invariant.                                                          *)

\* What FreshInv says of a message depends on these variables only.
LEMMA FreshFrame ==
    ASSUME UNCHANGED <<msgs, i, ctrl, rx, hw, tdr, ackt, te, rdr, plan>>
    PROVE  /\ Moving' = Moving /\ Described' = Described
           /\ \A bit : MessageOver(bit)' = MessageOver(bit)
           /\ UNCHANGED event => Beginning' = Beginning
           /\ UNCHANGED pc => Stored' = Stored
<1>1. Described' = Described
  BY DEF Described, Msgi
<1>2. Moving' = Moving
  BY <1>1 DEF Moving, Starting, Addressing, WritingByte, ReadingByte, Ending, Refused,
              Reading, AddressByte, Exact, StopOnly
<1>3. \A bit : MessageOver(bit)' = MessageOver(bit)
  BY DEF MessageOver, Over, After, First, NeedsStart, Msgi, Exact
<1>4. UNCHANGED event => Beginning' = Beginning
  BY DEF Beginning, First, NeedsStart
<1>5. UNCHANGED pc => Stored' = Stored
  BY DEF Stored, Msgi
<1> QED BY <1>1, <1>2, <1>3, <1>4, <1>5

LEMMA TransferFresh ==
    ASSUME Types, Transfer, fresh'
    PROVE  FreshInv'
<1>1. AtRest
  BY DEF Transfer
<1>2. First(i)' = <<1, 0>> /\ NeedsStart(i)' = TRUE
  BY DEF Transfer, First, NeedsStart
<1>3. ctrl.restarted = FALSE /\ hw = {} /\ event = {}
  BY <1>1, CtrlFields DEF AtRest, Types
<1>4. Beginning'
  BY <1>1, <1>2, <1>3 DEF Transfer, Beginning
<1>5. Stored'
  BY DEF Transfer, Stored
<1> QED BY <1>4, <1>5 DEF FreshInv, Transfer

\* A store keeps Beginning: it touches neither the peripheral nor restarted.
LEMMA StoreBeginning ==
    ASSUME Beginning, NEW c, NEW next, Store(c, next), c.restarted = ctrl.restarted
    PROVE  Beginning'
BY DEF Beginning, Store, First, NeedsStart

LEMMA IssueFresh ==
    ASSUME Types, Issue, Beginning, Stored
    PROVE  FreshInv'
<1>0. ctrl \in CtrlType
  BY DEF Types
<1>1. UNCHANGED <<msgs, i, te>> /\ Msgi' = Msgi
  BY DEF Issue, Store, Msgi
<1>2. CASE pc = "issue"
  <2>1. Store([ctrl EXCEPT !.restart = Msgi.noStop], "p_buff")
    BY <1>2 DEF Issue
  <2>2. ctrl'.restart = Msgi.noStop /\ ctrl'.restarted = ctrl.restarted /\ pc' = "p_buff"
    BY <1>0, <2>1 DEF Store, CtrlType
  <2>3. Stored'
    BY <1>1, <2>2 DEF Stored
  <2> QED BY <2>1, <2>2, <2>3, StoreBeginning DEF FreshInv, Store
<1>3. CASE pc = "p_buff"
  <2>1. Store([ctrl EXCEPT !.total = Msgi.len], "addr_low")
    BY <1>3 DEF Issue
  <2>2. /\ ctrl'.total = Msgi.len /\ ctrl'.restarted = ctrl.restarted /\ pc' = "addr_low"
        /\ ctrl'.restart = ctrl.restart
    BY <1>0, <2>1 DEF Store, CtrlType
  <2>3. Stored'
    BY <1>1, <1>3, <2>2 DEF Stored
  <2> QED BY <2>1, <2>2, <2>3, StoreBeginning DEF FreshInv, Store
<1>4. CASE pc = "addr_low"
  <2>1. Store([ctrl EXCEPT !.addr_low = IF Msgi.read THEN 1 ELSE 0], "read")
    BY <1>4 DEF Issue
  <2>2. /\ ctrl'.addr_low = IF Msgi.read THEN 1 ELSE 0
        /\ ctrl'.restarted = ctrl.restarted /\ pc' = "read"
        /\ ctrl'.restart = ctrl.restart /\ ctrl'.total = ctrl.total
    BY <1>0, <2>1 DEF Store, CtrlType
  <2>3. Stored'
    BY <1>1, <1>4, <2>2 DEF Stored
  <2> QED BY <2>1, <2>2, <2>3, StoreBeginning DEF FreshInv, Store
<1>5. CASE pc = "read"
  <2>1. Store([ctrl EXCEPT !.read = Msgi.read], "addr_loaded")
    BY <1>5 DEF Issue
  <2>2. /\ ctrl'.read = Msgi.read /\ ctrl'.restarted = ctrl.restarted /\ pc' = "addr_loaded"
        /\ ctrl'.restart = ctrl.restart /\ ctrl'.total = ctrl.total
        /\ ctrl'.addr_low = ctrl.addr_low
    BY <1>0, <2>1 DEF Store, CtrlType
  <2>3. Stored'
    BY <1>1, <1>5, <2>2 DEF Stored
  <2> QED BY <2>1, <2>2, <2>3, StoreBeginning DEF FreshInv, Store
<1> QED BY <1>2, <1>3, <1>4, <1>5 DEF Issue

LEMMA ResetFresh ==
    ASSUME Types, ResetTrackers, Beginning, Stored
    PROVE  FreshInv'
<1>0. ctrl \in CtrlType
  BY DEF Types
<1>1. UNCHANGED <<msgs, i, te>> /\ Msgi' = Msgi
  BY DEF ResetTrackers, Store, Msgi
<1>2. CASE pc = "addr_loaded"
  <2>1. Store([ctrl EXCEPT !.addr_loaded = 0], "loaded")
    BY <1>2 DEF ResetTrackers
  <2>2. /\ ctrl'.addr_loaded = 0 /\ pc' = "loaded"
        /\ ctrl'.restart = ctrl.restart /\ ctrl'.total = ctrl.total /\ ctrl'.read = ctrl.read
        /\ ctrl'.addr_low = ctrl.addr_low /\ ctrl'.restarted = ctrl.restarted
    BY <1>0, <2>1 DEF Store, CtrlType
  <2>3. Stored'
    BY <1>1, <1>2, <2>2 DEF Stored
  <2> QED BY <2>1, <2>2, <2>3, StoreBeginning DEF FreshInv, Store
<1>3. CASE pc = "loaded"
  <2>1. Store([ctrl EXCEPT !.loaded = 0], "remain")
    BY <1>3 DEF ResetTrackers
  <2>2. /\ ctrl'.loaded = 0 /\ pc' = "remain"
        /\ ctrl'.restart = ctrl.restart /\ ctrl'.total = ctrl.total /\ ctrl'.read = ctrl.read
        /\ ctrl'.addr_low = ctrl.addr_low /\ ctrl'.restarted = ctrl.restarted
        /\ ctrl'.addr_loaded = ctrl.addr_loaded
    BY <1>0, <2>1 DEF Store, CtrlType
  <2>3. Stored'
    BY <1>1, <1>3, <2>2 DEF Stored
  <2> QED BY <2>1, <2>2, <2>3, StoreBeginning DEF FreshInv, Store
<1>4. CASE pc = "remain"
  <2>1. Store([ctrl EXCEPT !.remain = ctrl.total], "err")
    BY <1>4 DEF ResetTrackers
  <2>2. /\ ctrl'.remain = ctrl.total /\ pc' = "err"
        /\ ctrl'.restart = ctrl.restart /\ ctrl'.total = ctrl.total /\ ctrl'.read = ctrl.read
        /\ ctrl'.addr_low = ctrl.addr_low /\ ctrl'.restarted = ctrl.restarted
        /\ ctrl'.addr_loaded = ctrl.addr_loaded
        /\ ctrl'.loaded = ctrl.loaded
    BY <1>0, <2>1 DEF Store, CtrlType
  <2>3. Stored'
    BY <1>1, <1>4, <2>2 DEF Stored
  <2> QED BY <2>1, <2>2, <2>3, StoreBeginning DEF FreshInv, Store
<1>5. CASE pc = "err"
  <2>1. Store([ctrl EXCEPT !.err = FALSE], "do_dummy_read")
    BY <1>5 DEF ResetTrackers
  <2>2. /\ ctrl'.err = FALSE /\ pc' = "do_dummy_read"
        /\ ctrl'.restart = ctrl.restart /\ ctrl'.total = ctrl.total /\ ctrl'.read = ctrl.read
        /\ ctrl'.addr_low = ctrl.addr_low /\ ctrl'.restarted = ctrl.restarted
        /\ ctrl'.addr_loaded = ctrl.addr_loaded
        /\ ctrl'.loaded = ctrl.loaded
        /\ ctrl'.remain = ctrl.remain
    BY <1>0, <2>1 DEF Store, CtrlType
  <2>3. Stored'
    BY <1>1, <1>5, <2>2 DEF Stored
  <2> QED BY <2>1, <2>2, <2>3, StoreBeginning DEF FreshInv, Store
<1>6. CASE pc = "do_dummy_read"
  <2>1. Store([ctrl EXCEPT !.do_dummy_read = FALSE], "dummy_if_read")
    BY <1>6 DEF ResetTrackers
  <2>2. /\ ctrl'.do_dummy_read = FALSE /\ pc' = "dummy_if_read"
        /\ ctrl'.restart = ctrl.restart /\ ctrl'.total = ctrl.total /\ ctrl'.read = ctrl.read
        /\ ctrl'.addr_low = ctrl.addr_low /\ ctrl'.restarted = ctrl.restarted
        /\ ctrl'.addr_loaded = ctrl.addr_loaded
        /\ ctrl'.loaded = ctrl.loaded
        /\ ctrl'.remain = ctrl.remain
        /\ ctrl'.err = ctrl.err
    BY <1>0, <2>1 DEF Store, CtrlType
  <2>3. Stored'
    BY <1>1, <1>6, <2>2 DEF Stored
  <2> QED BY <2>1, <2>2, <2>3, StoreBeginning DEF FreshInv, Store
<1>7. CASE pc = "dummy_if_read"
  <2>1. Store([ctrl EXCEPT !.do_dummy_read = @ \/ ctrl.read], "enable")
    BY <1>7 DEF ResetTrackers
  <2>2. /\ ctrl'.do_dummy_read = (ctrl.do_dummy_read \/ ctrl.read) /\ pc' = "enable"
        /\ ctrl'.restart = ctrl.restart /\ ctrl'.total = ctrl.total /\ ctrl'.read = ctrl.read
        /\ ctrl'.addr_low = ctrl.addr_low /\ ctrl'.restarted = ctrl.restarted
        /\ ctrl'.addr_loaded = ctrl.addr_loaded
        /\ ctrl'.loaded = ctrl.loaded
        /\ ctrl'.remain = ctrl.remain
        /\ ctrl'.err = ctrl.err
    BY <1>0, <2>1 DEF Store, CtrlType
  <2>3. ctrl'.do_dummy_read = ctrl'.read
    BY <1>0, <1>7, <2>2, CtrlFields DEF Stored
  <2>4. Stored'
    BY <1>1, <1>7, <2>2, <2>3 DEF Stored
  <2> QED BY <2>1, <2>2, <2>4, StoreBeginning DEF FreshInv, Store
<1> QED BY <1>2, <1>3, <1>4, <1>5, <1>6, <1>7 DEF ResetTrackers

LEMMA EnableFresh ==
    ASSUME Types, Enable, Beginning, Stored
    PROVE  FreshInv'
<1>1. UNCHANGED <<msgs, i, event, ctrl, hw, plan>> /\ te' = TRUE /\ pc = "enable" /\ pc' = "run"
  BY DEF Enable
<1>2. Beginning'
  BY <1>1 DEF Beginning, First, NeedsStart
<1>3. Stored'
  BY <1>1 DEF Stored, Msgi
<1> QED BY <1>1, <1>2, <1>3 DEF FreshInv

LEMMA RunFresh ==
    ASSUME Types, RunHwMaster, Beginning, Stored
    PROVE  FreshInv'
<1>0. ctrl \in CtrlType
  BY DEF Types
<1>1. /\ Described /\ ctrl.addr_loaded = 0 /\ ctrl.loaded = 0 /\ ctrl.remain = ctrl.total
      /\ ctrl.err = FALSE /\ ctrl.do_dummy_read = ctrl.read /\ te
  BY DEF RunHwMaster, Stored, Described
<1>2. UNCHANGED <<msgs, i, event, plan, te>> /\ pc' = "recv"
  BY DEF RunHwMaster
<1>4. CASE ctrl.restarted
  <2>1. hw' = {"byte"} /\ tdr' = AddressByte
    BY <1>4 DEF RunHwMaster, Beginning
  <2>2. plan = <<i, 1>>
    BY <1>4 DEF Beginning, First
  <2>3. PICK c \in CtrlType : c = [ctrl EXCEPT !.restarted = FALSE]
    BY <1>0, RestartedFields
  <2>4. ctrl' = CountAddress(c)
    BY <1>4, <2>3 DEF RunHwMaster
  <2>5. /\ c.restart = ctrl.restart /\ c.total = ctrl.total /\ c.read = ctrl.read
        /\ c.addr_low = ctrl.addr_low /\ c.restarted = FALSE /\ c.loaded = ctrl.loaded
        /\ c.remain = ctrl.remain /\ c.addr_loaded = ctrl.addr_loaded /\ c.err = ctrl.err
        /\ c.do_dummy_read = ctrl.do_dummy_read
    BY <1>0, <2>3, RestartedFields
  <2>6. /\ ctrl'.restart = c.restart /\ ctrl'.total = c.total /\ ctrl'.read = c.read
        /\ ctrl'.addr_low = c.addr_low /\ ctrl'.restarted = c.restarted
        /\ ctrl'.loaded = c.loaded /\ ctrl'.remain = c.remain /\ ctrl'.addr_loaded = 1
        /\ ctrl'.err = c.err /\ ctrl'.do_dummy_read = c.do_dummy_read
    BY <1>1, <2>4, <2>5, AddressFields
  <2>7. Described'
    BY <1>1, <1>2, <2>5, <2>6 DEF Described, Msgi
  <2>8. Addressing'
    BY <1>1, <1>2, <2>1, <2>2, <2>5, <2>6 DEF Addressing, AddressByte
  <2> QED BY <1>1, <1>2, <2>7, <2>8 DEF FreshInv, Moving, Beginning, Storing
<1>5. CASE ~ctrl.restarted
  <2>1. hw' = {"start"} /\ UNCHANGED ctrl
    BY <1>5 DEF RunHwMaster, Beginning
  <2>2. plan = <<i, 0>>
    BY <1>5 DEF Beginning, First, NeedsStart
  <2>3. Starting'
    BY <1>1, <1>2, <1>5, <2>1, <2>2 DEF Starting
  <2>4. Described'
    BY <1>1, <1>2, <2>1 DEF Described, Msgi
  <2> QED BY <1>1, <1>2, <2>3, <2>4 DEF FreshInv, Moving, Beginning, Storing
<1> QED BY <1>4, <1>5

LEMMA NextMessageFresh ==
    ASSUME Types, NextMessage, FreshInv
    PROVE  FreshInv'
<1>0. ctrl \in CtrlType /\ ThreadTypes
  BY DEF Types
<1>1. PICK bit \in Bits : got = {bit} /\ MessageOver(bit) /\ event = {}
  BY DEF NextMessage, FreshInv
<1>2. UNCHANGED <<msgs, got, event, ctrl, rx, hw, tdr, ackt, te, rdr, plan, fresh>>
  BY DEF NextMessage
<1>3. CASE "ABORTED" \in got
  <2>1. bit = "ABORTED" /\ pc' = "idle" /\ ok' = FALSE
    BY <1>1, <1>3 DEF NextMessage
  <2> QED BY <1>1, <1>2, <2>1 DEF FreshInv, MessageOver, AtRest, Over, Storing
<1>4. CASE "ABORTED" \notin got /\ i < Len(msgs)
  <2>1. i' = i + 1 /\ pc' = "issue" /\ bit # "ABORTED"
    BY <1>0, <1>1, <1>4, MessageTypes, SMT DEF NextMessage, ThreadTypes
  <2>2. i + 1 # 1 /\ (i + 1) - 1 = i /\ i # Len(msgs)
    BY <1>0, <1>4, MessageTypes, SMT DEF ThreadTypes
  <2>3. First(i)' = After(i)
    BY <1>2, <2>1, <2>2 DEF After, First, NeedsStart
  <2>4. NeedsStart(i)' = ~Msgi.noStop
    BY <1>2, <2>1, <2>2 DEF NeedsStart, Msgi
  <2>5. ctrl.restarted = ~~Msgi.noStop
    BY <1>0, <1>1, <2>1, MessageTypes DEF MessageOver, ThreadTypes, Msgi
  <2>6. Beginning'
    BY <1>1, <1>2, <2>1, <2>3, <2>4, <2>5 DEF MessageOver, Beginning
  <2>7. Stored'
    BY <2>1 DEF Stored
  <2> QED BY <2>1, <2>6, <2>7 DEF FreshInv
<1>5. CASE "ABORTED" \notin got /\ i = Len(msgs)
  <2>1. pc' = "idle" /\ bit # "ABORTED"
    BY <1>0, <1>1, <1>5, MessageTypes, SMT DEF NextMessage, ThreadTypes
  <2>2. plan = Over
    BY <1>1, <1>5, <2>1 DEF MessageOver, After
  <2>3. ~ctrl.restarted /\ Msgi = msgs[Len(msgs)]
    BY <1>0, <1>1, <1>5, <2>1, MessageTypes DEF MessageOver, Msgi
  <2>4. msgs[Len(msgs)].read => Exact(msgs[Len(msgs)].len)
    BY <1>1, <2>1, <2>3 DEF MessageOver
  <2> QED BY <1>1, <1>2, <2>1, <2>2, <2>3, <2>4 DEF FreshInv, MessageOver, AtRest, Over, Exact,
                                                           Storing
<1> QED BY <1>3, <1>4, <1>5 DEF NextMessage

LEMMA HardwareFresh ==
    ASSUME Types, Hardware, FreshInv
    PROVE  FreshInv'
<1>1. hw # {}
  BY DEF Hardware, ByteDone, ConditionDone
<1>2. pc \in {"recv", "suspended"} /\ event = {} /\ Moving
  BY <1>1 DEF FreshInv, AtRest, Beginning, MessageOver, Types, ThreadTypes
<1>a. pc \notin Storing \cup {"idle", "done"}
  BY <1>2 DEF Storing
<1>3. CASE Moving' /\ UNCHANGED <<threadVars, event>>
  BY <1>2, <1>3, <1>a DEF FreshInv, threadVars
<1>4. ASSUME NEW bit \in Bits, Notify(bit), MessageOver(bit)'
      PROVE  FreshInv'
  <2>1. CASE pc = "recv"
    <3>1. pc' = "recv" /\ event' = {bit}
      BY <1>2, <1>4, <2>1 DEF Notify
    <3> QED BY <1>4, <3>1 DEF FreshInv, Storing
  <2>2. CASE pc = "suspended"
    <3>1. pc' = "done" /\ got' = {bit} /\ event' = {}
      BY <1>2, <1>4, <2>2 DEF Notify
    <3> QED BY <1>4, <3>1 DEF FreshInv, Storing
  <2> QED BY <1>2, <2>1, <2>2
<1> QED BY <1>2, <1>3, <1>4, MovingNext

\* FreshInv is kept while the transfer is undisturbed, and holds when it begins.
LEMMA FreshNext ==
    ASSUME Types, fresh => FreshInv, [Next]_vars, fresh'
    PROVE  FreshInv'
<1>1. CASE Transfer
  BY <1>1, TransferFresh
<1>2. CASE Timeout
  BY <1>2 DEF Timeout
<1>3. CASE Issue \/ ResetTrackers \/ Enable \/ RunHwMaster
  <2>1. fresh /\ pc \in Storing
    BY <1>3 DEF Issue, ResetTrackers, Store, Enable, RunHwMaster, Storing
  <2>2. Beginning /\ Stored
    BY <2>1 DEF FreshInv
  <2> QED BY <1>3, <2>2, IssueFresh, ResetFresh, EnableFresh, RunFresh
<1>5. CASE WaitComplete
  <2>1. fresh /\ pc = "recv" /\ FreshInv
    BY <1>5 DEF WaitComplete
  <2>2. /\ UNCHANGED <<msgs, i, ctrl, rx, hw, tdr, ackt, te, rdr, plan>>
        /\ pc' = IF event # {} THEN "done" ELSE "suspended"
        /\ got' = event /\ event' = {}
    BY <1>5 DEF WaitComplete
  <2>3. CASE event = {}
    <3>1. Moving /\ pc' = "suspended"
      BY <2>1, <2>2, <2>3 DEF FreshInv
    <3>2. Moving'
      BY <2>2, <3>1, FreshFrame
    <3> QED BY <2>2, <3>1, <3>2 DEF FreshInv, Storing
  <2>4. CASE event # {}
    <3>1. PICK bit \in Bits : event = {bit} /\ MessageOver(bit)
      BY <2>1, <2>4 DEF FreshInv
    <3>2. MessageOver(bit)'
      BY <2>2, <3>1, FreshFrame
    <3> QED BY <2>2, <2>4, <3>1, <3>2 DEF FreshInv, Storing
  <2> QED BY <2>3, <2>4
<1>6. CASE NextMessage
  <2>1. fresh
    BY <1>6 DEF NextMessage
  <2> QED BY <1>6, <2>1, NextMessageFresh
<1>7. CASE Hardware
  <2>1. fresh
    BY <1>7 DEF Hardware, ByteDone, ConditionDone
  <2> QED BY <1>7, <2>1, HardwareFresh
<1>8. CASE UNCHANGED vars
  <2>1. UNCHANGED <<pc, msgs, i, ok, got, event, ctrl, rx, hw, tdr, ackt, te, rdr, plan, fresh>>
    BY <1>8 DEF vars, threadVars
  <2> QED BY <2>1, FreshFrame DEF FreshInv, AtRest, Exact
<1> QED BY <1>1, <1>2, <1>3, <1>5, <1>6, <1>7, <1>8 DEF Next, Thread

LEMMA InitIInv == Init => IInv
<1> SUFFICES ASSUME Init PROVE IInv
  OBVIOUS
<1>1. Types
  <2>1. ThreadTypes
    <3>1. Len(msgs) \in Nat /\ Len(msgs) >= 1
      BY TransfersAssumption, SMT DEF Init
    <3>2. i \in 1 .. Len(msgs)
      BY <3>1, SMT DEF Init
    <3> QED BY <3>2 DEF Init, ThreadTypes
  <2>2. 0 \in 0 .. MaxLen /\ 0 \in 0 .. UIntModulus - 1 /\ 0 \in 0 .. UIntModulus
        /\ 0 \in 0 .. ByteModulus - 1
    BY TransfersAssumption, SMT
  <2>3. ctrl \in CtrlType
    BY <2>2 DEF Init, CtrlType
  <2>4. HardwareTypes /\ PlanOK
    BY <2>2 DEF Init, HardwareTypes, Buffer, TdrBytes, PlanOK
  <2> QED BY <2>1, <2>3, <2>4 DEF Types
<1>2. FreshInv
  BY DEF Init, FreshInv, AtRest, Storing
<1> QED BY <1>1, <1>2, TypesOfTypeOK DEF IInv

LEMMA NextIInv == IInv /\ [Next]_vars => IInv'
<1> SUFFICES ASSUME IInv, [Next]_vars PROVE IInv'
  OBVIOUS
<1>1. Types /\ (fresh => FreshInv)
  BY TypesOfTypeOK DEF IInv
<1>2. Types' /\ (fresh' => FreshInv')
  BY <1>1, TypesNext, FreshNext
<1>3. TypeOK'
  BY <1>2 DEF TypeOK, Types, ThreadTypes, CtrlType, HardwareTypes, Bits
<1> QED BY <1>2, <1>3 DEF IInv

\* The control block, the peripheral and the monitor are in step in every
\* reachable state of an undisturbed transfer.
THEOREM Invariance == Spec => []IInv
<1>1. Init => IInv
  BY InitIInv
<1>2. IInv /\ [Next]_vars => IInv'
  BY NextIInv
<1> QED BY <1>1, <1>2, PTL DEF Spec
-----------------------------------------------------------------------------
(* The properties that the run checks, for every instance.                 *)

\* Every variable keeps its type, in disturbed transfers too.
THEOREM TypeCorrect == Spec => []TypeOK
<1>1. IInv => TypeOK
  BY DEF IInv
<1> QED BY <1>1, Invariance, PTL

\* The bus carries exactly what the messages call for.
THEOREM BusConformsCorrect == Spec => []BusConforms
<1>1. IInv => BusConforms
  <2> SUFFICES ASSUME IInv, fresh PROVE plan # Broken
    BY DEF BusConforms
  <2>1. ThreadTypes /\ FreshInv
    BY TypesOfTypeOK DEF IInv, Types
  <2>2. i # 0 /\ i + 1 # 0
    BY <2>1, MessageTypes, SMT DEF ThreadTypes
  <2>3. \A k : <<i, k>> # Broken /\ <<i + 1, k>> # Broken
    BY <2>2 DEF Broken
  <2>4. Over # Broken /\ StopOnly # Broken
    BY DEF Over, StopOnly, Broken
  <2>5. First(i) # Broken /\ After(i) # Broken
    BY <2>3, <2>4 DEF First, After
  <2>6. Moving => plan # Broken
    BY <2>3, <2>4 DEF Moving, Starting, Addressing, WritingByte, ReadingByte, Ending, Refused
  <2>7. \A bit : MessageOver(bit) => plan # Broken
    BY <2>4, <2>5 DEF MessageOver
  <2>8. Beginning => plan # Broken
    BY <2>5 DEF Beginning
  <2> QED BY <2>1, <2>4, <2>6, <2>7, <2>8 DEF FreshInv, ThreadTypes
<1> QED BY <1>1, Invariance, PTL

\* ra_i2c_mst_xfer leaves the driver at rest, with all its traffic over.
THEOREM QuietOnReturnCorrect == Spec => []QuietOnReturn
<1>1. IInv => QuietOnReturn
  BY DEF IInv, FreshInv, QuietOnReturn
<1> QED BY <1>1, Invariance, PTL

\* A read that succeeds has filled the buffer with the bytes the slave sent.
THEOREM ReadIsExactCorrect == Spec => []ReadIsExact
<1>1. IInv => ReadIsExact
  <2> SUFFICES ASSUME IInv, fresh, pc = "idle", ok, msgs[Len(msgs)].read,
                      NEW k \in 1 .. msgs[Len(msgs)].len
               PROVE  rx[k - 1] = k
    BY DEF ReadIsExact
  <2>1. ThreadTypes /\ Exact(msgs[Len(msgs)].len)
    BY TypesOfTypeOK DEF IInv, FreshInv, Types
  <2>2. msgs[Len(msgs)].len \in Int
    BY <2>1, MessageTypes, TransfersAssumption, SMT
  <2>3. k - 1 \in 0 .. msgs[Len(msgs)].len - 1 /\ (k - 1) + 1 = k
    BY <2>2, SMT
  <2> QED BY <2>1, <2>3 DEF Exact
<1> QED BY <1>1, Invariance, PTL

\* In a transfer that found the driver at rest no handler moves a byte past the end
\* of the message, whatever counters the transfers before left behind.
THEOREM NoOverrunCorrect == Spec => []NoOverrun
<1>1. IInv => NoOverrun
  <2> SUFFICES ASSUME IInv, fresh, pc \in {"recv", "suspended", "done"}
               PROVE  ctrl.loaded + ctrl.remain <= ctrl.total
    BY DEF NoOverrun
  <2>1. ctrl \in CtrlType /\ FreshInv
    BY TypesOfTypeOK DEF IInv, Types
  <2>2. Moving => ctrl.loaded + ctrl.remain <= ctrl.total
    BY <2>1, CtrlFields, SMT
       DEF Moving, Starting, Addressing, WritingByte, ReadingByte, Ending, Refused
  <2>3. \A bit : MessageOver(bit) => ctrl.loaded + ctrl.remain <= ctrl.total
    BY DEF MessageOver
  <2> QED BY <2>1, <2>2, <2>3 DEF FreshInv
<1> QED BY <1>1, Invariance, PTL
=============================================================================
