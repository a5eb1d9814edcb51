----------------------------- MODULE MipiTable -----------------------------
(***************************************************************************)
(* mipi_dsi_push_table (board/ports/mipi_lcd/mipi_config.c): the table of  *)
(* panel settings is sent entry by entry over the MIPI link, and the       *)
(* sequence interrupt tells through g_message_sent when a message is out.  *)
(*                                                                         *)
(* The link is external, modelled from r_mipi_dsi.c as the driver uses it: *)
(* it refuses a command while a sequence runs, and the interrupt of a      *)
(* sequence carries its status.  Phy events only accumulate in a variable  *)
(* nobody reads and are left out.  The names are such that a module can    *)
(* extend this one and LcdUpdate, the other part of the display.           *)
(***************************************************************************)
EXTENDS Naturals, Sequences

CONSTANTS
    Tables,    \* tables without their end mark: sequences of entries
    Statuses   \* statuses a sequence can end with; "finished" means no error bit

\* An entry: what is sent, or DELAY_FLAG, and its size (the time, for a delay).
ASSUME TablesAssumption ==
    \A t \in Tables : t \in Seq([cmd_id: STRING, size: Nat])

VARIABLES
    table,           \* the table being pushed
    entry,           \* index of p_entry
    pushing,         \* where mipi_dsi_push_table is
    g_message_sent,
    link,            \* entry the link is sending, 0 when SQ0RUN is clear
    irq,             \* status of a pending sequence interrupt, or "none"
    panel,           \* monitor: indices of the entries the panel received
    delays,          \* monitor: the delays made, in milliseconds
    error            \* monitor: a sequence ended with another status

panelVars == <<table, entry, pushing, g_message_sent, link, irq, panel, delays, error>>

IsDelay(e) == e.cmd_id = "DELAY_FLAG"

PanelTypeOK ==
    /\ table \in Tables
    /\ entry \in 1 .. Len(table) + 1
    /\ pushing \in {"entry", "command", "wait", "done"}
    /\ g_message_sent \in BOOLEAN
    /\ link \in 0 .. Len(table)
    /\ irq \in Statuses \cup {"none"}
    /\ panel \in Seq(1 .. Len(table))
    /\ delays \in Seq(Nat)
    /\ error \in BOOLEAN

PanelInit ==
    /\ table \in Tables
    /\ entry = 1
    /\ pushing = "entry"
    /\ g_message_sent = FALSE
    /\ link = 0
    /\ irq = "none"
    /\ panel = <<>>
    /\ delays = <<>>
    /\ error = FALSE
-----------------------------------------------------------------------------
(* mipi_dsi_push_table.                                                    *)

\* The end mark is reached.
End ==
    /\ pushing = "entry"
    /\ entry = Len(table) + 1
    /\ pushing' = "done"
    /\ UNCHANGED <<table, entry, g_message_sent, link, irq, panel, delays, error>>

\* A delay entry.  The time is taken from the first entry of the table.
SoftwareDelay ==
    /\ pushing = "entry"
    /\ entry <= Len(table)
    /\ IsDelay(table[entry])
    /\ delays' = Append(delays, table[1].size)
    /\ entry' = entry + 1
    /\ UNCHANGED <<table, pushing, g_message_sent, link, irq, panel, error>>

\* Mutant of Begin: the flag of the message before is not taken back.
BeginStale ==
    /\ pushing = "entry"
    /\ entry <= Len(table)
    /\ ~IsDelay(table[entry])
    /\ pushing' = "command"
    /\ UNCHANGED <<table, entry, g_message_sent, link, irq, panel, delays, error>>

\* g_message_sent = false, before the command can raise an interrupt.
Begin ==
    /\ pushing = "entry"
    /\ entry <= Len(table)
    /\ ~IsDelay(table[entry])
    /\ g_message_sent' = FALSE
    /\ pushing' = "command"
    /\ UNCHANGED <<table, entry, link, irq, panel, delays, error>>

\* Mutant of Command: the flag is taken back between the command and the wait,
\* which is late for a fast link.
CommandThenClear ==
    /\ pushing = "command"
    /\ LET started == link = entry \/ irq # "none" \/ g_message_sent
       IN /\ link' = IF started THEN link ELSE entry
          /\ pushing' = IF started THEN "wait" ELSE "command"
          /\ g_message_sent' = FALSE
    /\ UNCHANGED <<table, entry, irq, panel, delays, error>>

\* R_MIPI_DSI_Command; that the link was in use is only logged.
Command ==
    /\ pushing = "command"
    /\ link' = IF link = 0 THEN entry ELSE link
    /\ pushing' = "wait"
    /\ UNCHANGED <<table, entry, g_message_sent, irq, panel, delays, error>>

\* Mutant of Sent: p_entry is advanced twice.
SentSkips ==
    /\ pushing = "wait"
    /\ g_message_sent
    /\ entry' = entry + 2
    /\ pushing' = "entry"
    /\ UNCHANGED <<table, g_message_sent, link, irq, panel, delays, error>>

\* while (!g_message_sent) ends.
Sent ==
    /\ pushing = "wait"
    /\ g_message_sent
    /\ entry' = entry + 1
    /\ pushing' = "entry"
    /\ UNCHANGED <<table, g_message_sent, link, irq, panel, delays, error>>
-----------------------------------------------------------------------------
(* The link and its interrupt.                                             *)

SequenceEnds ==
    /\ link # 0
    /\ irq = "none"
    /\ irq' \in Statuses
    /\ panel' = IF irq' = "finished" THEN Append(panel, link) ELSE panel
    /\ error' = (error \/ irq' # "finished")
    /\ link' = 0
    /\ UNCHANGED <<table, entry, pushing, g_message_sent, delays>>

\* mipi_dsi0_callback: a status with any other bit is not a sent message.
Callback ==
    /\ irq # "none"
    /\ g_message_sent' = (g_message_sent \/ irq = "finished")
    /\ irq' = "none"
    /\ UNCHANGED <<table, entry, pushing, link, panel, delays, error>>

Push == End \/ SoftwareDelay \/ Begin \/ Command \/ Sent

\* The display thread stays in the wait when a message was not sent, and is
\* finished when the table is.
PanelNext == Push \/ SequenceEnds \/ Callback

PanelSpec == PanelInit /\ [][PanelNext]_panelVars

\* Nothing stops the initialising thread, a sequence that was started ends, and
\* its interrupt is taken.
Fairness == WF_panelVars(Push) /\ WF_panelVars(SequenceEnds) /\ WF_panelVars(Callback)

PanelFairSpec == PanelSpec /\ Fairness
-----------------------------------------------------------------------------
(* Properties.                                                             *)

\* The entries before the n-th that are commands.
CommandsBefore(n) == {k \in 1 .. n - 1 : ~IsDelay(table[k])}

Received == {panel[k] : k \in DOMAIN panel}

\* The panel receives the commands of the table in order, each once: when
\* mipi_dsi_push_table moves on from an entry the panel has it, and at most the
\* entry being waited for is ahead.
PanelInOrder ==
    /\ \A j, k \in DOMAIN panel : j < k => panel[j] < panel[k]
    /\ CommandsBefore(entry) \subseteq Received
    /\ Received \subseteq CommandsBefore(entry) \cup {entry}

\* The whole table is pushed, unless the link ended a sequence with an error,
\* after which the wait has no end.
TablePushed == <>(pushing = "done" \/ error)

\* Each delay entry, such as the 120 ms after Sleep Out, lasts as long as it says.
DelayAsTabled ==
    delays = [i \in DOMAIN delays |->
                SelectSeq(table, IsDelay)[i].size]
=============================================================================
