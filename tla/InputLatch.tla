------------------------------ MODULE InputLatch ------------------------------
(***************************************************************************)
(* The buttons, axes and controllers the player holds on each port         *)
(* (emusen-core-host's latch.rs): taken on any thread, and given to the    *)
(* machine on its own as a frame starts.  A send copies what is held and   *)
(* marks it given under the lock, then tells the machine outside it.       *)
(*                                                                         *)
(* A port has one axis.  A state load puts the state's own buttons, axes   *)
(* and controllers into the machine; the engine then asks for the          *)
(* controllers to be given again (CoreEngine::load_state).  Sends, loads   *)
(* and a new machine are made under the session's gate, one at a time; the *)
(* player's calls are not.                                                 *)
(***************************************************************************)
EXTENDS Integers

CONSTANTS
    FirstPorts, \* the ports of a new machine
    MaxPorts,  \* the ports a latch may come to have
    Buttons,   \* a port's buttons
    Values,    \* where an axis may stand; 0 is at rest
    MaxLoads   \* state loads in a run

ASSUME LatchAssumption ==
    /\ FirstPorts \in Nat /\ MaxPorts \in Nat /\ FirstPorts <= MaxPorts
    /\ "axis" \notin Buttons
    /\ 0 \in Values
    /\ MaxLoads \in Nat

VARIABLES
    ports,                            \* how many ports it has
    held, changed,                    \* the buttons held, and those to be given
    axis, moved,                      \* the axes, and whether they are to be
    present, presence_changed,        \* the controllers, and whether they are
    resend,                           \* every controller is to be
    sending,                          \* the copies a send gives from, by port
    machine,                          \* what the machine holds of each port
    loaded,                           \* what it has from a state, not given since
    loads                             \* state loads made

player == <<held, axis, present>>
marks == <<changed, moved, presence_changed, resend>>
latch_vars == <<ports, player, marks, sending, machine, loaded, loads>>

Ports == 0 .. MaxPorts - 1
Listed == 0 .. ports - 1
Empty == [buttons |-> {}, axis |-> 0, present |-> TRUE]
NoCopies == [p \in {} |-> Empty]

\* A latch, and a machine, with nothing held and every port full.
Fresh(n) ==
    /\ ports' = n
    /\ held' = [p \in Ports |-> {}] /\ changed' = [p \in Ports |-> {}]
    /\ axis' = [p \in Ports |-> 0] /\ moved' = [p \in Ports |-> FALSE]
    /\ present' = [p \in Ports |-> TRUE]
    /\ presence_changed' = [p \in Ports |-> FALSE]
    /\ resend' = FALSE
    /\ machine' = [p \in Ports |-> Empty]
    /\ loaded' = [p \in Ports |-> {}]

LatchInit ==
    /\ ports = FirstPorts
    /\ held = [p \in Ports |-> {}] /\ changed = [p \in Ports |-> {}]
    /\ axis = [p \in Ports |-> 0] /\ moved = [p \in Ports |-> FALSE]
    /\ present = [p \in Ports |-> TRUE]
    /\ presence_changed = [p \in Ports |-> FALSE]
    /\ resend = FALSE /\ sending = NoCopies
    /\ machine = [p \in Ports |-> Empty]
    /\ loaded = [p \in Ports |-> {}]
    /\ loads = 0

-----------------------------------------------------------------------------
(* The player, on any thread.                                              *)

\* The bits of ch take mask's values.
Hold(p, mask, ch) ==
    /\ p \in Listed
    /\ held' = [held EXCEPT ![p] = (@ \ ch) \cup (mask \cap ch)]
    /\ changed' = [changed EXCEPT ![p] = @ \cup ch]
    /\ UNCHANGED <<ports, axis, present, moved, presence_changed, resend,
                   sending, machine, loaded, loads>>

Connect(p, connected) ==
    /\ p \in Listed /\ present[p] # connected
    /\ present' = [present EXCEPT ![p] = connected]
    /\ presence_changed' = [presence_changed EXCEPT ![p] = ~@]
    /\ UNCHANGED <<ports, held, axis, changed, moved, resend,
                   sending, machine, loaded, loads>>

MoveAxis(p, value) ==
    /\ p \in Listed
    /\ axis' = [axis EXCEPT ![p] = value]
    /\ moved' = [moved EXCEPT ![p] = TRUE]
    /\ UNCHANGED <<ports, held, present, changed, presence_changed, resend,
                   sending, machine, loaded, loads>>

-----------------------------------------------------------------------------
(* The machine's thread.                                                   *)

Copy(p) ==
    [held |-> held[p], changed |-> changed[p],
     axis |-> axis[p], moved |-> moved[p], present |-> present[p],
     presence |-> resend \/ presence_changed[p]]

NothingMarked ==
    /\ changed' = [p \in Ports |-> {}]
    /\ moved' = [p \in Ports |-> FALSE]
    /\ presence_changed' = [p \in Ports |-> FALSE]
    /\ resend' = FALSE

\* InputLatch::send, under the lock.
SendCopy ==
    /\ sending = NoCopies
    /\ sending' = [p \in Listed |-> Copy(p)]
    /\ NothingMarked
    /\ UNCHANGED <<ports, player, machine, loaded, loads>>

\* What the machine holds of a port once a copy of it is given.
Told(m, s) ==
    [buttons |-> (m.buttons \ s.changed) \cup (s.held \cap s.changed),
     axis    |-> IF s.moved THEN s.axis ELSE m.axis,
     present |-> IF s.presence THEN s.present ELSE m.present]

\* The machine with what a send has still to give it.
Due(p) ==
    IF p \in DOMAIN sending THEN Told(machine[p], sending[p]) ELSE machine[p]

\* The marks taken away once the machine has been told.
SendGiveThenUnmark ==
    /\ sending # NoCopies
    /\ machine' = [p \in Ports |-> Due(p)]
    /\ sending' = NoCopies
    /\ NothingMarked
    /\ UNCHANGED <<ports, player, loaded, loads>>

\* What a send gives of a port.
Given(p) ==
    IF p \in DOMAIN sending
    THEN sending[p].changed \cup (IF sending[p].moved THEN {"axis"} ELSE {})
    ELSE {}

\* InputLatch::send, outside it.
SendGive ==
    /\ sending # NoCopies
    /\ machine' = [p \in Ports |-> Due(p)]
    /\ loaded' = [p \in Ports |-> loaded[p] \ Given(p)]
    /\ sending' = NoCopies
    /\ UNCHANGED <<ports, player, marks, loads>>

\* The machine's ports are more than they were.
Grow ==
    /\ sending = NoCopies /\ ports < MaxPorts
    /\ ports' = ports + 1
    /\ UNCHANGED <<player, marks, sending, machine, loaded, loads>>

\* A state, with ports of its own, and the controllers asked for again.
LoadState ==
    /\ sending = NoCopies /\ loads < MaxLoads
    /\ \E m \in [Listed -> [buttons : SUBSET Buttons, axis : Values, present : BOOLEAN]] :
          machine' = [p \in Ports |-> IF p \in Listed THEN m[p] ELSE Empty]
    /\ loaded' = [p \in Ports |-> IF p \in Listed THEN Buttons \cup {"axis"} ELSE {}]
    /\ resend' = TRUE
    /\ loads' = loads + 1
    /\ UNCHANGED <<ports, player, changed, moved, presence_changed, sending>>

\* Another machine is made.
Reset ==
    /\ sending = NoCopies /\ Fresh(FirstPorts)
    /\ UNCHANGED <<sending, loads>>

LatchNext ==
    \/ \E p \in Ports, ch \in SUBSET Buttons, mask \in SUBSET Buttons : Hold(p, mask, ch)
    \/ \E p \in Ports, connected \in BOOLEAN : Connect(p, connected)
    \/ \E p \in Ports, value \in Values : MoveAxis(p, value)
    \/ SendCopy \/ SendGive \/ Grow \/ LoadState \/ Reset

LatchSpec == LatchInit /\ [][LatchNext]_latch_vars

-----------------------------------------------------------------------------
(* Properties.                                                             *)

\* What the machine does not hold as the player does is marked to be given
\* with the next frame, whatever was taken while the last was being given;
\* but a button or an axis a state brought stays as the state has it until
\* the player's changes.  A controller is marked when it differs, and only
\* then, so that one pulled out and put back is not given.
DifferenceIsMarked ==
    \A p \in Listed :
       /\ \A b \in Buttons : (b \in held[p]) # (b \in Due(p).buttons)
             => b \in changed[p] \cup loaded[p]
       /\ axis[p] # Due(p).axis => moved[p] \/ "axis" \in loaded[p]
       /\ ~resend => (presence_changed[p] <=> present[p] # Due(p).present)
=============================================================================
