------------------------------ MODULE HciMode ------------------------------
(***************************************************************************)
(* The host mode and its button (src/src/main.cpp): load the stored mode   *)
(* at boot, start the application in it, and on a debounced press stop the *)
(* radio, store the next mode and reset.  The record is a page of internal *)
(* flash, or the two retained registers of the nRF5340 network core        *)
(* (src/nRF5340_Net/src/hci_nrf5340_net.cpp).                              *)
(*                                                                         *)
(* The power may fail and the chip may be reset between any two steps.  A  *)
(* word being written when the power fails may read as anything; an erase  *)
(* cut short leaves some words as they were and the others erased.         *)
(***************************************************************************)
EXTENDS Integers

CONSTANTS Board,           \* UDG, IBK or NET: the boards with HCI_MODE_SWITCH
          DebouncePasses,  \* HCI_MODE_DEBOUNCE_PASSES
          MaxPresses,      \* bound: presses of the button
          MaxCuts          \* bound: power failures and resets

ASSUME ModeAssumption ==
    /\ Board \in {"UDG", "IBK", "NET"}
    /\ DebouncePasses \in Nat \ {0}
    /\ {MaxPresses, MaxCuts} \subseteq Nat

Mode == {"UART_H4", "USB_H4", "USB_NATIVE", "IPC"}

HciModeAllowed == IF Board = "UDG" THEN {"USB_H4", "USB_NATIVE"}
                  ELSE IF Board = "IBK" THEN {"UART_H4", "USB_H4", "USB_NATIVE"}
                  ELSE {"IPC", "UART_H4"}

(* HciBoardDefaultMode: the IBK asks VBUS. *)
HciBoardDefaultMode == IF Board = "UDG" THEN {"USB_NATIVE"}
                       ELSE IF Board = "IBK" THEN {"USB_NATIVE", "UART_H4"}
                       ELSE {"IPC"}

HciNextMode(m) ==
    IF Board = "UDG" THEN IF m = "USB_H4" THEN "USB_NATIVE" ELSE "USB_H4"
    ELSE IF Board = "NET" THEN IF m = "IPC" THEN "UART_H4" ELSE "IPC"
    ELSE IF m = "UART_H4" THEN "USB_H4"
    ELSE IF m = "USB_H4" THEN "USB_NATIVE"
    ELSE "UART_H4"

(* The words of the record in the order they are written.  HEAD is Magic,  *)
(* Version and Board; on the NET board the tag and the mode are one word.  *)
(* The check is that of a mode.                                            *)
WordCount == IF Board = "NET" THEN 2 ELSE 3
HEAD  == 1
MODE  == WordCount - 1
CHECK == WordCount

ERASED == "ERASED"
OURS   == "OURS"
JUNK   == "JUNK"
Value  == Mode \cup {ERASED, OURS, JUNK}

VARIABLES phase, mode, next,
          Initialized, radioUp,
          page, word,          \* the record; the word being written
          down,                \* the button
          s_ModeButtonLatched, s_ModeButtonDebounce,
          cuts,
          presses, changes,    \* history: presses made, mode changes begun
          known                \* history: the modes a boot may come up in

buttonVars == <<down, presses>>
latchVars  == <<s_ModeButtonLatched, s_ModeButtonDebounce>>
appVars    == <<Initialized, radioUp>>
vars == <<phase, mode, next, appVars, page, word, buttonVars, latchVars, cuts, changes, known>>

Blank == [w \in 1 .. WordCount |-> IF Board = "NET" THEN JUNK ELSE ERASED]

(* A new board, or one whose page another program wrote. *)
Init == /\ phase = "OFF" /\ mode \in HciBoardDefaultMode /\ next = mode
        /\ Initialized = FALSE /\ radioUp = FALSE
        /\ page \in {Blank, [w \in 1 .. WordCount |-> JUNK],
                     [w \in 1 .. WordCount |-> IF w = MODE THEN "UART_H4" ELSE JUNK]}
        /\ word = 0
        /\ down \in BOOLEAN /\ s_ModeButtonLatched = FALSE /\ s_ModeButtonDebounce = 0
        /\ cuts = 0
        /\ presses = (IF down THEN 1 ELSE 0) /\ changes = 0
        /\ known = {}

-----------------------------------------------------------------------------
(* Boot. *)

(* Faulty variant: the check word is not looked at.                        *)
ValidUnchecked == /\ Board # "NET" => page[HEAD] = OURS
                  /\ page[MODE] \in HciModeAllowed

(* HciModeNvmLoad, HciNrf5340NetModeLoad. *)
Valid == /\ Board # "NET" => page[HEAD] = OURS
         /\ page[MODE] \in HciModeAllowed
         /\ page[CHECK] = page[MODE]

(* Faulty variant: the button is taken to be up at boot.                   *)
BootUp == s_ModeButtonLatched' = FALSE /\ s_ModeButtonDebounce' = 0

BootLatch == s_ModeButtonLatched' = down /\ s_ModeButtonDebounce' = 0

(* main up to HciAppInitMode; the flash region may be unusable. *)
Boot ==
    /\ phase = "OFF"
    /\ BootLatch
    /\ \/ phase' = "INIT" /\ Valid /\ mode' = page[MODE]
       \/ phase' = "INIT" /\ ~Valid /\ mode' \in HciBoardDefaultMode
       \/ phase' = "FATAL" /\ Board # "NET" /\ UNCHANGED mode
    /\ UNCHANGED <<next, appVars, page, word, buttonVars, cuts, changes, known>>

(* HciAppInitMode and the creation of the threads.  A failure is for good; *)
(* the target is left up when a stage after HciTargetInit fails.           *)
HciAppInitMode ==
    /\ phase = "INIT"
    /\ \/ phase' = "RUN" /\ Initialized' = TRUE /\ radioUp' = TRUE
       \/ phase' = "FATAL" /\ Initialized' = FALSE /\ radioUp' \in BOOLEAN
       \/ phase' = "FATAL" /\ Initialized' = TRUE /\ radioUp' = TRUE
    /\ known' = {mode}
    /\ UNCHANGED <<mode, next, page, word, buttonVars, latchVars, cuts, changes>>

-----------------------------------------------------------------------------
(* The button, read by the status thread every 20 ms. *)

Button ==
    /\ phase \notin {"FATAL"}
    /\ \/ down /\ down' = FALSE /\ UNCHANGED presses
       \/ ~down /\ presses < MaxPresses /\ down' = TRUE /\ presses' = presses + 1
    /\ UNCHANGED <<phase, mode, next, appVars, page, word, latchVars, cuts, changes, known>>

HciModeButtonProcess ==
    /\ phase = "RUN"
    /\ \/ /\ ~down
          /\ s_ModeButtonLatched' = FALSE /\ s_ModeButtonDebounce' = 0
          /\ UNCHANGED <<phase, next, changes>>
       \/ /\ down /\ ~s_ModeButtonLatched
          /\ s_ModeButtonDebounce + 1 < DebouncePasses
          /\ s_ModeButtonDebounce' = s_ModeButtonDebounce + 1
          /\ UNCHANGED <<phase, next, changes, s_ModeButtonLatched>>
       \/ /\ down /\ ~s_ModeButtonLatched
          /\ s_ModeButtonDebounce + 1 = DebouncePasses
          /\ s_ModeButtonDebounce' = DebouncePasses
          /\ s_ModeButtonLatched' = TRUE
          /\ next' = HciNextMode(mode)
          /\ phase' = "STOP"
          /\ changes' = changes + 1
    /\ UNCHANGED <<mode, appVars, page, word, buttonVars, cuts, known>>

(* Faulty variant: the store does not ask whether the stop succeeded.      *)
StopTimesOutUnseen == phase' = "ERASE" /\ UNCHANGED appVars

(* The HCI thread did not leave in time: the target stays up, and the mode *)
(* is not stored.                                                          *)
StopTimesOut == phase' = "FATAL" /\ UNCHANGED appVars

(* HciAppStop. *)
HciAppStop ==
    /\ phase = "STOP"
    /\ \/ phase' = "ERASE" /\ Initialized' = FALSE /\ radioUp' = FALSE
       \/ StopTimesOut
    /\ known' = known \cup {next} \cup HciBoardDefaultMode
    /\ UNCHANGED <<mode, next, page, word, buttonVars, latchVars, cuts, changes>>

-----------------------------------------------------------------------------
(* HciModeNvmStore.  Retained registers are not erased. *)

StoreFails == phase' = "FATAL" /\ UNCHANGED <<page, word>>

Erase ==
    /\ phase = "ERASE"
    /\ \/ next \in HciModeAllowed
          /\ phase' = "WRITE" /\ word' = 1
          /\ page' = IF Board = "NET" THEN page ELSE Blank
       \/ (Board # "NET" \/ next \notin HciModeAllowed) /\ StoreFails
    /\ UNCHANGED <<mode, next, appVars, buttonVars, latchVars, cuts, changes, known>>

(* Faulty variant: the check word is made of the running mode.             *)
RecordWordStale(w) == IF w = CHECK THEN mode ELSE IF w = MODE THEN next ELSE OURS

RecordWord(w) == IF w \in {MODE, CHECK} THEN next ELSE OURS

LastWord == word = WordCount

Write ==
    /\ phase = "WRITE"
    /\ \/ /\ page' = [page EXCEPT ![word] = RecordWord(word)]
          /\ word' = word + 1
          /\ phase' = IF LastWord THEN "VERIFY" ELSE "WRITE"
       \/ Board # "NET" /\ StoreFails
    /\ UNCHANGED <<mode, next, appVars, buttonVars, latchVars, cuts, changes, known>>

(* The network core reads back the tag only. *)
Verified == IF Board = "NET" THEN page[MODE] = next
            ELSE \A w \in 1 .. WordCount : page[w] = RecordWord(w)

(* NVIC_SystemReset follows a record that reads back as written. *)
Verify ==
    /\ phase = "VERIFY"
    /\ \/ Verified /\ phase' = "OFF" /\ known' = {next}
       \/ Board # "NET" /\ phase' = "FATAL" /\ UNCHANGED known
    /\ word' = 0
    /\ UNCHANGED <<mode, next, appVars, page, buttonVars, latchVars, cuts, changes>>

-----------------------------------------------------------------------------
(* A reset of the chip keeps the record, a power failure loses registers   *)
(* and can cut a write or an erase.                                        *)

CutShort(p) ==
    \/ phase # "ERASE" /\ phase # "WRITE" /\ p = page
    \/ Board # "NET" /\ phase = "ERASE"
       /\ \A w \in 1 .. WordCount : p[w] \in {page[w], ERASED}
    \/ Board # "NET" /\ phase = "WRITE"
       /\ \A w \in 1 .. WordCount : p[w] = page[w] \/ w = word

PowerFails ==
    /\ phase # "OFF" /\ cuts < MaxCuts
    /\ cuts' = cuts + 1
    /\ page' \in IF Board = "NET" THEN {Blank}
                 ELSE {p \in [1 .. WordCount -> Value] : CutShort(p)}
    /\ phase' = "OFF" /\ word' = 0
    /\ Initialized' = FALSE /\ radioUp' = FALSE
    /\ known' = IF Board = "NET" THEN HciBoardDefaultMode ELSE known
    /\ UNCHANGED <<mode, next, buttonVars, latchVars, changes>>

ChipReset ==
    /\ phase # "OFF" /\ cuts < MaxCuts
    /\ cuts' = cuts + 1
    /\ phase' = "OFF" /\ word' = 0
    /\ Initialized' = FALSE /\ radioUp' = FALSE
    /\ UNCHANGED <<mode, next, page, buttonVars, latchVars, changes, known>>

Next == \/ Boot \/ HciAppInitMode
        \/ Button \/ HciModeButtonProcess
        \/ HciAppStop \/ Erase \/ Write \/ Verify
        \/ PowerFails \/ ChipReset

Spec == Init /\ [][Next]_vars

(* What the program does by itself. *)
Fairness == /\ WF_vars(Boot)
            /\ WF_vars(HciAppInitMode)
            /\ WF_vars(HciAppStop \/ Erase \/ Write \/ Verify)

LiveSpec == Spec /\ Fairness

-----------------------------------------------------------------------------

TypeOK == /\ phase \in {"OFF", "INIT", "RUN", "STOP", "ERASE", "WRITE", "VERIFY", "FATAL"}
          /\ mode \in Mode /\ next \in Mode
          /\ Initialized \in BOOLEAN /\ radioUp \in BOOLEAN
          /\ down \in BOOLEAN /\ s_ModeButtonLatched \in BOOLEAN
          /\ page \in [1 .. WordCount -> Value]
          /\ word \in 0 .. WordCount + 1
          /\ s_ModeButtonDebounce \in 0 .. DebouncePasses
          /\ cuts \in Nat /\ presses \in Nat /\ changes \in Nat
          /\ known \subseteq Mode

(* A boot comes up in the mode it was last in, or in the one that was      *)
(* being stored when the power failed, or in the board's default; never in *)
(* a mode nobody chose, and never in one the board has not.                *)
BootsInKnownMode == phase = "INIT" => mode \in (known \cup HciBoardDefaultMode) \cap HciModeAllowed

(* Flash is written only while MPSL and the SDC are down, even when the    *)
(* HCI thread would not stop.                                              *)
FlashWithRadioDown == phase \in {"ERASE", "WRITE", "VERIFY"} => ~radioUp /\ ~Initialized

(* One press changes the mode at most once: a button held through the      *)
(* reset that ends the change does not change it again.                    *)
OnePressOneChange == changes <= presses

(* A confirmed press ends in the next mode, unless the power fails, the    *)
(* chip is reset or the program has stopped for good.                      *)
PressChangesMode ==
    \A m \in Mode : (phase = "STOP" /\ next = m)
        ~> (phase = "FATAL" \/ cuts > 0 \/ (phase \in {"INIT", "RUN"} /\ mode = m))

-----------------------------------------------------------------------------
(* The inductive parts of OnePressOneChange and BootsInKnownMode. *)

(* A button that is down and not latched was pressed after the last change. *)
PressCounted ==
    /\ changes <= presses
    /\ phase \in {"INIT", "RUN"} /\ down /\ ~s_ModeButtonLatched => changes < presses

(* A record that would be accepted holds a known mode, in every phase; the *)
(* words of flash not yet written are erased.                              *)
RecordKnown ==
    /\ known \subseteq HciModeAllowed
    /\ Valid => page[MODE] \in known \cup HciBoardDefaultMode
    /\ phase = "INIT" => mode \in (known \cup HciBoardDefaultMode) \cap HciModeAllowed
    /\ phase = "INIT" /\ Valid => mode = page[MODE]
    /\ phase \in {"STOP", "ERASE", "WRITE", "VERIFY"} => next \in HciModeAllowed
    /\ phase \in {"ERASE", "WRITE", "VERIFY"} => next \in known
    /\ phase = "WRITE" =>
          /\ word \in 1 .. WordCount
          /\ Board # "NET" => \A w \in word .. WordCount : page[w] = ERASED
          /\ word > MODE => page[MODE] = next
    /\ phase = "VERIFY" => page[MODE] = next

Inv == TypeOK /\ PressCounted /\ RecordKnown
=============================================================================
