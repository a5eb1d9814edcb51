----------------------------- MODULE LcdUpdate -----------------------------
(***************************************************************************)
(* RTGRAPHIC_CTRL_RECT_UPDATE of the LCD driver (drv_lcd.c), the vsync     *)
(* completion behind it (completion.c), and the threads that use it: the   *)
(* shell, which runs lcd_test, and the instances of thread1, which update  *)
(* once and then paint pixels for ever.  No lock protects the driver.      *)
(*                                                                         *)
(* Addresses count 16-bit pixels from fb_background[0]; fb_background      *)
(* holds two buffers of P pixels.  The graphics controller is external,    *)
(* modelled from r_glcdc.c: R_GLCDC_BufferChange writes a shadow register  *)
(* that the next vsync takes over, and fails while one is pending or the   *)
(* start of the controller is.                                             *)
(***************************************************************************)
EXTENDS Naturals

CONSTANTS
    Shell,     \* the shell thread
    Painters,  \* the instances of thread1
    P,         \* pixels of one buffer, LCD_WIDTH * LCD_HEIGHT
    NoOne      \* not a client

ASSUME ClientAssumption ==
    /\ Shell \notin Painters
    /\ NoOne \notin Painters \cup {Shell}

ASSUME PixelAssumption == P \in Nat \ {0}

Clients == Painters \cup {Shell}

\* Two bytes per pixel.
LCD_BUF_SIZE == 2 * P

gp_single_buffer == 0

\* gp_single_buffer + LCD_BUF_SIZE, with a pointer to 16-bit pixels.
gp_double_buffer == gp_single_buffer + LCD_BUF_SIZE

Buffers == {gp_single_buffer, gp_double_buffer}

VARIABLES
    working,    \* lcd_current_working_buffer
    reg, pven,  \* shadow register FLM2, and whether it waits for the vsync
    ven,        \* BG.EN.VEN: the start of the controller waits for the vsync
    shown,      \* buffer on the screen
    flag,       \* sync_completion: its flag
    waiting,    \* and the thread on its suspended list
    pc, target, \* of each client: where it is, the buffer it is about to store
    owner,      \* monitor: client of the last successful buffer change
    fresh       \* monitor: clients that saw a vsync since their buffer change

driverVars == <<working, reg, pven, ven, shown, flag, waiting>>
vars == <<driverVars, pc, target, owner, fresh>>

Places == {"fill", "load", "store", "write", "change", "wait", "suspended", "woken",
           "delay", "paint", "halted", "stopped"}

TypeOK ==
    /\ working \in Buffers
    /\ reg \in Buffers
    /\ pven \in BOOLEAN /\ ven \in BOOLEAN
    /\ shown \in Buffers
    /\ flag \in BOOLEAN
    /\ waiting \in SUBSET Clients
    /\ pc \in [Clients -> Places]
    /\ target \in [Clients -> Buffers]
    /\ owner \in Clients \cup {NoOne}
    /\ fresh \in SUBSET Clients

\* rt_hw_lcd_init is over: the controller has been started on the single buffer, and
\* the first vsync may be still to come.  That the start succeeded is an assumption:
\* the code does not look at the result of ra_bsp_lcd_init.
Init ==
    /\ working = gp_single_buffer
    /\ reg = gp_single_buffer
    /\ pven = FALSE /\ ven \in BOOLEAN
    /\ shown = gp_single_buffer
    /\ flag = FALSE
    /\ waiting = {}
    /\ pc = [c \in Clients |-> "fill"]
    /\ target = [c \in Clients |-> gp_single_buffer]
    /\ owner = NoOne
    /\ fresh = {}
-----------------------------------------------------------------------------
(* ra_lcd_control.                                                         *)

Goto(c, from, to) == pc[c] = from /\ pc' = [pc EXCEPT ![c] = to]

\* The client has filled the frame buffer and calls the driver.
Update(c) ==
    /\ Goto(c, "fill", "load")
    /\ UNCHANGED <<driverVars, target, owner, fresh>>

\* lcd_current_working_buffer is read and compared ...
Load(c) ==
    /\ Goto(c, "load", "store")
    /\ target' = [target EXCEPT ![c] =
                    IF working = gp_single_buffer THEN gp_double_buffer ELSE gp_single_buffer]
    /\ UNCHANGED <<driverVars, owner, fresh>>

\* ... and assigned.
Store(c) ==
    /\ Goto(c, "store", "write")
    /\ working' = target[c]
    /\ UNCHANGED <<reg, pven, ven, shown, flag, waiting, target, owner, fresh>>

\* g2d_display_write_area copies the frame buffer and waits for the 2D engine.
WriteArea(c) ==
    /\ Goto(c, "write", "change")
    /\ UNCHANGED <<driverVars, target, owner, fresh>>

\* Mutant of BufferChange: the buffer computed before the copy is passed.
BufferChangeToTarget(c) ==
    /\ pc[c] = "change"
    /\ \/ /\ ~pven /\ ~ven
          /\ reg' = target[c] /\ pven' = TRUE /\ owner' = c /\ fresh' = fresh \ {c}
          /\ pc' = [pc EXCEPT ![c] = "wait"]
       \/ /\ pven \/ ven
          /\ pc' = [pc EXCEPT ![c] = "halted"]
          /\ UNCHANGED <<reg, pven, owner, fresh>>
    /\ UNCHANGED <<working, ven, shown, flag, waiting, target>>

\* R_GLCDC_BufferChange and the assertion on its result: rt_assert_handler never
\* returns, and the thread turns in its loop with interrupts on.
BufferChange(c) ==
    /\ pc[c] = "change"
    /\ \/ /\ ~pven /\ ~ven
          /\ reg' = working
          /\ pven' = TRUE
          /\ owner' = c
          /\ fresh' = fresh \ {c}
          /\ pc' = [pc EXCEPT ![c] = "wait"]
       \/ /\ pven \/ ven
          /\ pc' = [pc EXCEPT ![c] = "halted"]
          /\ UNCHANGED <<reg, pven, owner, fresh>>
    /\ UNCHANGED <<working, ven, shown, flag, waiting, target>>

\* After an update lcd_test sleeps and thread1 paints.
After(c) == IF c = Shell THEN "delay" ELSE "paint"

\* rt_completion_wait, up to the suspension of the thread: with interrupts off
\* it takes a completion that is done, or goes on the suspended list, which its
\* assertion wants to be empty: when it is not, the whole system stops.
VsyncWait(c) ==
    /\ pc[c] = "wait"
    /\ \/ /\ flag
          /\ flag' = FALSE
          /\ pc' = [pc EXCEPT ![c] = After(c)]
          /\ UNCHANGED waiting
       \/ /\ ~flag /\ waiting = {}
          /\ waiting' = {c}
          /\ pc' = [pc EXCEPT ![c] = "suspended"]
          /\ UNCHANGED flag
       \/ /\ ~flag /\ waiting # {}
          /\ pc' = [pc EXCEPT ![c] = "stopped"]
          /\ UNCHANGED <<flag, waiting>>
    /\ UNCHANGED <<working, reg, pven, ven, shown, target, owner, fresh>>

\* The thread runs again and takes the flag back.
Resume(c) ==
    /\ Goto(c, "woken", After(c))
    /\ flag' = FALSE
    /\ UNCHANGED <<working, reg, pven, ven, shown, waiting, target, owner, fresh>>

\* Mutant of Delay: lcd_test does not sleep between two updates.
DelayNot(c) ==
    /\ Goto(c, "delay", "fill")
    /\ UNCHANGED <<driverVars, target, owner, fresh>>

\* lcd_test: rt_thread_mdelay(1000), in which the screen is refreshed many times.
Delay(c) ==
    /\ c \in fresh
    /\ Goto(c, "delay", "fill")
    /\ UNCHANGED <<driverVars, target, owner, fresh>>

\* A thread is caught in an assertion with interrupts off.
Stopped == \E c \in Clients : pc[c] = "stopped"

\* Mutant of Vsync: the waiting thread is not resumed.
VsyncNoResume ==
    /\ flag' = TRUE
    /\ pven' = FALSE /\ ven' = FALSE
    /\ shown' = reg
    /\ fresh' = Clients
    /\ UNCHANGED <<working, reg, waiting, pc, target, owner>>

\* Mutant of Vsync: the resumed thread stays on the suspended list.
VsyncKeepsList ==
    /\ shown' = IF pven THEN reg ELSE shown
    /\ pven' = FALSE /\ ven' = FALSE
    /\ fresh' = Clients
    /\ flag' = TRUE
    /\ pc' = [c \in Clients |-> IF c \in waiting THEN "woken" ELSE pc[c]]
    /\ UNCHANGED <<working, reg, waiting, target, owner>>

\* A vsync: the controller takes over the shadow register; DisplayVsyncCallback
\* calls rt_completion_done, which does nothing when the flag is still set.
\* With interrupts off only the controller goes on.
Vsync ==
    /\ shown' = IF pven THEN reg ELSE shown
    /\ pven' = FALSE /\ ven' = FALSE
    /\ fresh' = Clients
    /\ IF flag \/ Stopped
       THEN UNCHANGED <<flag, waiting, pc>>
       ELSE /\ flag' = TRUE
            /\ waiting' = {}
            /\ pc' = [c \in Clients |-> IF c \in waiting THEN "woken" ELSE pc[c]]
    /\ UNCHANGED <<working, reg, target, owner>>

Step(c) ==
    /\ ~Stopped
    /\ \/ Load(c) \/ Store(c) \/ WriteArea(c) \/ BufferChange(c)
       \/ VsyncWait(c) \/ Resume(c) \/ Delay(c)

Start(c) == ~Stopped /\ Update(c)

Next == Vsync \/ \E c \in Clients : Start(c) \/ Step(c)

Spec == Init /\ [][Next]_vars

\* The controller refreshes the screen for ever and every ready thread gets the
\* processor as long as no thread is caught in an assertion; whether lcd_test is
\* typed again is up to the user.
FairSpec == Spec /\ WF_vars(Vsync) /\ \A c \in Clients : WF_vars(Step(c))
-----------------------------------------------------------------------------
(* Properties.                                                             *)

\* The suspended list of the completion never holds a thread that is not
\* suspended, and no suspended thread is missing from it: the wake-up of
\* rt_completion_done cannot get lost or hit a running thread.
ListIsExact == waiting = {c \in Clients : pc[c] = "suspended"}

\* When no update is under way, the buffer thread1 paints in is the one the
\* controller shows or will show at the next vsync, however the updates of
\* several threads overlapped, as long as no assertion stopped one of them.
PaintsAreShown ==
    (\A c \in Clients : pc[c] \notin {"write", "change", "halted"}) =>
        /\ reg = working
        /\ pven \/ shown = reg

\* Once the controller has shown its first frame, a thread is stopped by the
\* assertion on R_GLCDC_BufferChange only when the update of another thread is
\* waiting for the vsync: a single user of the driver is never stopped, although its
\* own wait may return early.
HaltsOnOverlap ==
    [][\A c \in Clients :
          pc[c] = "change" /\ pc'[c] = "halted" => ven \/ (pven /\ owner # c)]_vars

\* The inductive invariant behind HaltsOnOverlap: the client whose change is
\* pending is past its update and has seen no vsync since.
PendingOwner ==
    pven => /\ owner \in Clients \ fresh
            /\ pc[owner] \in {"wait", "suspended", "woken", "delay", "paint", "stopped"}

IInv == TypeOK /\ ListIsExact /\ PaintsAreShown /\ PendingOwner

\* Every update that changed the buffer returns to its caller, unless an
\* assertion stopped the system or a thread, which keeps the processor from then on.
UpdateReturns ==
    \A c \in Clients :
        (pc[c] = "wait") ~> \/ pc[c] \in {"delay", "paint"}
                           \/ \E d \in Clients : pc[d] \in {"halted", "stopped"}

\* The working buffer is one of the two of fb_background.
WorkingInFrameBuffers == working + P <= 2 * P
=============================================================================
