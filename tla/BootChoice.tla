------------------------------ MODULE BootChoice ------------------------------
(***************************************************************************)
(* What the reboot core boots: thread 0 reads its settings from the NAND   *)
(* image, asks the system management controller (SMC) one question over a  *)
(* mailbox that also carries messages nobody asked for, and decides        *)
(* (start() from the options on, getSmc, smc_send and smc_receive).        *)
(***************************************************************************)
EXTENDS Naturals, Sequences

CONSTANTS
  Reasons,       \* power-on reasons the SMC reports
  Eject,         \* PWR_REAS_EJECT, the default xellbutton
  TrayStates,    \* the answers to SMC_CMD_TRAYSTS
  Open, Closed,  \* 0x60 and 0x62
  Unset,         \* 0 in an options byte
  MaxEvents,     \* messages nobody asked for
  Empty          \* rmsg all zero: nothing received

(* No reason is 0, the value of an options byte that is not set. *)
ASSUME ChoiceAssumption ==
  /\ Eject \in Reasons /\ Unset \notin Reasons
  /\ Open \in TrayStates /\ Closed \in TrayStates
  /\ MaxEvents \in Nat

Commands == {"tray", "reason"}

VARIABLES
  options,     \* [usepwr, nodvd, dual, pwrr1, pwrr2]
  smc,         \* [reason, tray]: what the SMC knows
  fifo,        \* messages from the SMC not yet read
  request,     \* command sent and not yet answered
  events,      \* messages still to come unasked
  choicePc,
  rmsg,        \* the message getSmc holds
  boot, bootxell, dualboot

choiceVars == <<options, smc, fifo, request, events, choicePc, rmsg, boot, bootxell, dualboot>>

Options == [usepwr: BOOLEAN, nodvd: BOOLEAN, dual: Reasons \cup {Unset},
            pwrr1: Reasons \cup {Unset}, pwrr2: Reasons \cup {Unset}]

ChoiceInit ==
  /\ options \in Options
  /\ smc \in [reason: Reasons, tray: TrayStates]
  /\ fifo = << >> /\ request = "none" /\ events \in 0..MaxEvents
  /\ choicePc = "options" /\ rmsg = Empty
  /\ boot = Unset /\ bootxell = FALSE /\ dualboot = FALSE

(* Mutant of WithDefaults: no default for xellbutton. *)
AsStored(opts) == opts

WithDefaults(opts) ==
  IF opts.pwrr1 = Unset THEN [opts EXCEPT !.pwrr1 = Eject] ELSE opts

(* _memcpy32 of the options; an unset xellbutton is the eject button. *)
ReadOptions ==
  /\ choicePc = "options"
  /\ options' = WithDefaults(options)
  /\ choicePc' = "send"
  /\ UNCHANGED <<smc, fifo, request, events, rmsg, boot, bootxell, dualboot>>

Command == IF options.usepwr THEN "reason" ELSE "tray"

(* Mutant of SmcSend: always the tray question. *)
SendTray ==
  /\ choicePc = "send"
  /\ request' = "tray"
  /\ rmsg' = Empty
  /\ choicePc' = "receive"
  /\ UNCHANGED <<options, smc, fifo, events, boot, bootxell, dualboot>>

(* smc_send.  Its wait for room in the mailbox is left out: like the wait   *)
(* for the answer it has no end if the controller hangs.                   *)
SmcSend ==
  /\ choicePc = "send"
  /\ request' = Command
  /\ rmsg' = Empty
  /\ choicePc' = "receive"
  /\ UNCHANGED <<options, smc, fifo, events, boot, bootxell, dualboot>>

(* Mutant of IsAnswer: any message is the answer. *)
AnyMessage(m) == m.command \in Commands \cup {"event"}

IsAnswer(m) == m.command = Command

(* One turn of the loop in getSmc that finds a message.  A turn that finds *)
(* none changes nothing.                                                   *)
SmcReceive ==
  /\ choicePc = "receive" /\ fifo # << >>
  /\ rmsg' = Head(fifo)
  /\ fifo' = Tail(fifo)
  /\ IF IsAnswer(Head(fifo))
     THEN boot' = Head(fifo).value /\ choicePc' = "choose"
     ELSE UNCHANGED <<boot, choicePc>>
  /\ UNCHANGED <<options, smc, request, events, bootxell, dualboot>>

Choose ==
  /\ choicePc = "choose"
  /\ bootxell' = IF options.usepwr
                 THEN boot = options.pwrr1
                        \/ (options.pwrr2 # Unset /\ options.pwrr2 = boot)
                 ELSE IF options.nodvd THEN boot = Open ELSE boot # Closed
  /\ dualboot' = (options.usepwr /\ options.dual # Unset /\ boot = options.dual)
  /\ choicePc' = "chosen"
  /\ UNCHANGED <<options, smc, fifo, request, events, rmsg, boot>>

-------------------------------------------------------------------------------
(* The SMC: answers, in the order it likes, and events such as a button.   *)
SmcAnswer ==
  /\ request # "none"
  /\ fifo' = Append(fifo, [command |-> request,
               value |-> IF request = "reason" THEN smc.reason ELSE smc.tray])
  /\ request' = "none"
  /\ UNCHANGED <<options, smc, events, choicePc, rmsg, boot, bootxell, dualboot>>

SmcEvent ==
  /\ events > 0 /\ choicePc # "chosen"
  /\ events' = events - 1
  /\ \E r \in Reasons : fifo' = Append(fifo, [command |-> "event", value |-> r])
  /\ UNCHANGED <<options, smc, request, choicePc, rmsg, boot, bootxell, dualboot>>

(* Until the answer to a tray question is given the tray may move. *)
TrayMoves ==
  /\ request = "tray"
  /\ \E t \in TrayStates \ {smc.tray} : smc' = [smc EXCEPT !.tray = t]
  /\ UNCHANGED <<options, fifo, request, events, choicePc, rmsg, boot, bootxell, dualboot>>

ChoiceNext ==
  \/ ReadOptions \/ SmcSend \/ SmcReceive \/ Choose
  \/ SmcAnswer \/ SmcEvent \/ TrayMoves

Choosing == ReadOptions \/ SmcSend \/ SmcReceive \/ Choose
-------------------------------------------------------------------------------
(* Type invariant. *)
ChoiceTypeOK ==
  /\ options \in Options
  /\ choicePc # "options" => options.pwrr1 # Unset
  /\ smc \in [reason: Reasons, tray: TrayStates]
  /\ request \in Commands \cup {"none"}
  /\ events \in 0..MaxEvents
  /\ choicePc \in {"options", "send", "receive", "choose", "chosen"}
  /\ boot \in Reasons \cup TrayStates \cup {Unset}
  /\ bootxell \in BOOLEAN /\ dualboot \in BOOLEAN

(* XeLL is booted exactly when the user asked for it: by the button the    *)
(* console was really started with, xellbutton (eject if not set) or       *)
(* xellbutton2, or, where the settings say so, by the tray: fully open     *)
(* with nodvd, else not closed.  Messages nobody asked for do not count.   *)
XellAsConfigured ==
  choicePc = "chosen" =>
    bootxell =
      IF options.usepwr
      THEN smc.reason \in {options.pwrr1, options.pwrr2}
      ELSE smc.tray \in (IF options.nodvd THEN {Open} ELSE TrayStates \ {Closed})

(* Whatever else arrives, thread 0 gets its answer and chooses. *)
ChoiceMade == <>(choicePc = "chosen")
===============================================================================
