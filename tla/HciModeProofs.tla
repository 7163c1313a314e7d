--------------------------- MODULE HciModeProofs ----------------------------
(***************************************************************************)
(* The stored mode and the button on every board, for any number of        *)
(* presses, power failures and resets.                                     *)
(***************************************************************************)
EXTENDS HciMode, TLAPS

---------------------------------------------------------------------------
(* The tables of the boards agree: the default and the next mode are       *)
(* allowed, and a blank record is not accepted.                            *)
LEMMA BoardTables ==
    /\ HciModeAllowed \subseteq Mode
    /\ HciBoardDefaultMode \subseteq HciModeAllowed
    /\ \A m : HciNextMode(m) \in HciModeAllowed
    /\ WordCount \in {2, 3} /\ MODE \in 1 .. WordCount /\ CHECK \in 1 .. WordCount
    /\ MODE = WordCount - 1 /\ CHECK = WordCount /\ HEAD = 1
    /\ Board # "NET" => MODE # HEAD
    /\ Mode \subseteq Value /\ {ERASED, OURS, JUNK} \subseteq Value
    /\ \A m \in Mode : m \notin {ERASED, OURS, JUNK}
    /\ ERASED # OURS
    /\ \A w \in 1 .. WordCount : Blank[w] \in {ERASED, JUNK}
    /\ Blank \in [1 .. WordCount -> Value]
BY ModeAssumption
   DEF ModeAssumption, HciModeAllowed, HciBoardDefaultMode, HciNextMode, Mode, Value,
       WordCount, MODE, CHECK, HEAD, ERASED, OURS, JUNK, Blank

(* The type is kept. *)
LEMMA TypeStep == TypeOK /\ PressCounted /\ RecordKnown /\ [Next]_vars => TypeOK'
<1> SUFFICES ASSUME TypeOK, RecordKnown, [Next]_vars PROVE TypeOK'
    OBVIOUS
<1> USE BoardTables, ModeAssumption DEF ModeAssumption, TypeOK, buttonVars, latchVars, appVars
<1>1. CASE Boot
    BY <1>1 DEF Boot, BootLatch, Valid
<1>2. CASE HciAppInitMode
    BY <1>2 DEF HciAppInitMode
<1>3. CASE Button
    <2>1. presses' \in Nat
        <3>1. presses \in Nat
            OBVIOUS
        <3>2. presses' = presses \/ presses' = presses + 1
            BY <1>3, Zenon DEF Button
        <3> QED
            BY <3>1, <3>2
    <2>2. down' \in BOOLEAN
        BY <1>3 DEF Button
    <2> QED
        BY <1>3, <2>1, <2>2, Zenon DEF Button
<1>4. CASE HciModeButtonProcess
    <2>1. s_ModeButtonDebounce' \in 0 .. DebouncePasses
        BY <1>4 DEF HciModeButtonProcess
    <2>2. changes' \in Nat
        BY <1>4 DEF HciModeButtonProcess
    <2>3. next' \in Mode /\ phase' \in {"RUN", "STOP"} /\ s_ModeButtonLatched' \in BOOLEAN
        BY <1>4 DEF HciModeButtonProcess
    <2> QED
        BY <1>4, <2>1, <2>2, <2>3 DEF HciModeButtonProcess
<1>5. CASE HciAppStop
    BY <1>5 DEF HciAppStop, StopTimesOut
<1>6. CASE Erase
    BY <1>6 DEF Erase, StoreFails
<1>7. CASE Write
    <2>1. next \in Value /\ RecordWord(word) \in Value
        BY DEF RecordWord
    <2>2. phase = "WRITE" /\ word \in 1 .. WordCount
        BY <1>7 DEF Write, RecordKnown
    <2>3. page' \in [1 .. WordCount -> Value]
        BY <1>7, <2>1 DEF Write, StoreFails
    <2>4. word' \in 0 .. WordCount + 1
        BY <1>7, <2>2 DEF Write, StoreFails
    <2> QED
        BY <1>7, <2>3, <2>4 DEF Write, StoreFails
<1>8. CASE Verify
    BY <1>8 DEF Verify
<1>9. CASE PowerFails
    <2>1. cuts' \in Nat
        BY <1>9 DEF PowerFails
    <2>2. page' \in [1 .. WordCount -> Value] /\ known' \subseteq Mode
        BY <1>9 DEF PowerFails
    <2>3. word' \in 0 .. WordCount + 1
        BY <1>9 DEF PowerFails
    <2>4. Initialized' \in BOOLEAN /\ radioUp' \in BOOLEAN /\ phase' = "OFF"
        BY <1>9, Zenon DEF PowerFails
    <2> QED
        BY <1>9, <2>1, <2>2, <2>3, <2>4, Zenon DEF PowerFails
<1>10. CASE ChipReset
    <2>1. cuts' \in Nat
        BY <1>10 DEF ChipReset
    <2>3. word' \in 0 .. WordCount + 1
        BY <1>10 DEF ChipReset
    <2>4. Initialized' \in BOOLEAN /\ radioUp' \in BOOLEAN /\ phase' = "OFF"
        BY <1>10, Zenon DEF ChipReset
    <2> QED
        BY <1>10, <2>1, <2>3, <2>4, Zenon DEF ChipReset
<1>11. CASE UNCHANGED vars
    BY <1>11 DEF vars
<1> QED
    BY <1>1, <1>2, <1>3, <1>4, <1>5, <1>6, <1>7, <1>8, <1>9, <1>10, <1>11 DEF Next

(* Only a press not yet answered starts a change. *)
LEMMA PressStep == TypeOK /\ PressCounted /\ [Next]_vars => PressCounted'
<1> SUFFICES ASSUME TypeOK, PressCounted, [Next]_vars PROVE PressCounted'
    OBVIOUS
<1> USE DEF PressCounted, TypeOK, buttonVars, latchVars, appVars
<1>1. CASE Boot
    BY <1>1 DEF Boot, BootLatch
<1>2. CASE HciAppInitMode
    BY <1>2 DEF HciAppInitMode
<1>3. CASE Button
    BY <1>3 DEF Button
<1>4. CASE HciModeButtonProcess
    BY <1>4 DEF HciModeButtonProcess
<1>5. CASE HciAppStop
    BY <1>5 DEF HciAppStop, StopTimesOut
<1>6. CASE Erase
    BY <1>6 DEF Erase, StoreFails
<1>7. CASE Write
    BY <1>7 DEF Write, StoreFails
<1>8. CASE Verify
    BY <1>8 DEF Verify
<1>9. CASE PowerFails
    BY <1>9 DEF PowerFails
<1>10. CASE ChipReset
    BY <1>10 DEF ChipReset
<1>11. CASE UNCHANGED vars
    BY <1>11 DEF vars
<1> QED
    BY <1>1, <1>2, <1>3, <1>4, <1>5, <1>6, <1>7, <1>8, <1>9, <1>10, <1>11 DEF Next

(* A page that power loss left half erased or half written is either not   *)
(* accepted or holds the mode it held, or the one being stored.            *)
LEMMA CutRecord ==
    ASSUME TypeOK, RecordKnown, PowerFails, Valid'
    PROVE  page'[MODE] \in known' \cup HciBoardDefaultMode
<1> USE BoardTables DEF Valid
<1>1. CASE Board = "NET"
    <2>1. page' = Blank
        BY <1>1 DEF PowerFails
    <2>2. page'[MODE] \in {ERASED, JUNK}
        BY <2>1
    <2> QED
        BY <2>2
<1>2. CASE Board # "NET"
    <2>1. known' = known /\ CutShort(page')
        BY <1>2 DEF PowerFails
    <2>2. page'[HEAD] = OURS /\ page'[MODE] \in HciModeAllowed /\ page'[CHECK] = page'[MODE]
        BY <1>2
    <2>3. CASE page' = page
        BY <2>1, <2>2, <2>3 DEF RecordKnown
    <2>4. CASE phase = "ERASE" /\ \A w \in 1 .. WordCount : page'[w] \in {page[w], ERASED}
        <3>1. page'[HEAD] = page[HEAD] /\ page'[MODE] = page[MODE] /\ page'[CHECK] = page[CHECK]
            BY <2>2, <2>4
        <3> QED
            BY <2>1, <2>2, <3>1 DEF RecordKnown
    <2>5. CASE phase = "WRITE" /\ \A w \in 1 .. WordCount : page'[w] = page[w] \/ w = word
        <3>1. word \in 1 .. WordCount /\ \A w \in word .. WordCount : page[w] = ERASED
            BY <1>2, <2>5 DEF RecordKnown
        <3>2. CASE word = CHECK
            <4>1. page'[MODE] = page[MODE] /\ page[MODE] = next /\ next \in known
                BY <2>5, <3>2 DEF RecordKnown
            <4> QED
                BY <2>1, <4>1
        <3>3. CASE word # CHECK
            <4>1. page'[CHECK] = page[CHECK] /\ page[CHECK] = ERASED
                BY <2>5, <3>1, <3>3
            <4> QED
                BY <2>2, <4>1
        <3> QED
            BY <3>2, <3>3
    <2> QED
        BY <1>2, <2>1, <2>3, <2>4, <2>5 DEF CutShort
<1> QED
    BY <1>1, <1>2

(* The record stays one that may be booted. *)
LEMMA RecordStep == TypeOK /\ RecordKnown /\ [Next]_vars => RecordKnown'
<1> SUFFICES ASSUME TypeOK, RecordKnown, [Next]_vars PROVE RecordKnown'
    OBVIOUS
<1> USE BoardTables DEF RecordKnown, buttonVars, latchVars, appVars
<1>1. CASE Boot
    BY <1>1 DEF Boot, BootLatch, Valid
<1>2. CASE HciAppInitMode
    BY <1>2 DEF HciAppInitMode, Valid
<1>3. CASE Button
    BY <1>3 DEF Button, Valid
<1>4. CASE HciModeButtonProcess
    BY <1>4 DEF HciModeButtonProcess, Valid
<1>5. CASE HciAppStop
    BY <1>5 DEF HciAppStop, StopTimesOut, Valid
<1>6. CASE Erase
    <2>1. CASE StoreFails /\ UNCHANGED <<mode, next, known>>
        BY <1>6, <2>1 DEF Erase, StoreFails, Valid
    <2>2. CASE phase' = "WRITE" /\ word' = 1 /\ page' = IF Board = "NET" THEN page ELSE Blank
        <3>1. next' = next /\ known' = known /\ phase = "ERASE"
            BY <1>6 DEF Erase
        <3>2. Board # "NET" => \A w \in 1 .. WordCount : page'[w] = ERASED
            BY <2>2 DEF Blank
        <3>3. MODE \in 1 .. WordCount /\ word' \in 1 .. WordCount /\ ~(word' > MODE)
            BY <2>2
        <3>4. Valid' => Valid /\ page' = page
            BY <2>2, <3>2 DEF Valid
        <3> QED
            BY <2>2, <3>1, <3>2, <3>3, <3>4
    <2> QED
        BY <1>6, <2>1, <2>2 DEF Erase
<1>7. CASE Write
    <2>1. CASE StoreFails /\ UNCHANGED <<mode, next, known>>
        BY <1>7, <2>1 DEF Write, StoreFails, Valid
    <2>2. CASE /\ page' = [page EXCEPT ![word] = RecordWord(word)]
               /\ word' = word + 1
               /\ phase' = IF LastWord THEN "VERIFY" ELSE "WRITE"
        <3>1. next' = next /\ known' = known /\ phase = "WRITE" /\ word \in 1 .. WordCount
            BY <1>7 DEF Write
        <3>2. page \in [1 .. WordCount -> Value]
            BY DEF TypeOK
        <3>3. /\ page'[word] = RecordWord(word)
              /\ \A w \in 1 .. WordCount : w # word => page'[w] = page[w]
            BY <2>2, <3>1, <3>2
        <3>4. phase' = "WRITE" => word' \in 1 .. WordCount
            BY <2>2, <3>1 DEF LastWord
        <3>5. Board # "NET" => \A w \in word' .. WordCount : page'[w] = ERASED
            BY <2>2, <3>1, <3>3
        <3>6. word' > MODE => page'[MODE] = next
            <4>1. CASE word = MODE
                BY <3>3, <4>1 DEF RecordWord
            <4>2. CASE word # MODE
                BY <2>2, <3>1, <3>3, <4>2
            <4> QED
                BY <4>1, <4>2
        <3>7. phase' = "VERIFY" => word' > MODE
            BY <2>2, <3>1 DEF LastWord
        <3>8. Valid' => page'[MODE] \in known \cup HciBoardDefaultMode
            <4> SUFFICES ASSUME Valid' PROVE page'[MODE] \in known \cup HciBoardDefaultMode
                OBVIOUS
            <4>1. CASE word' > MODE
                BY <3>1, <3>6, <4>1
            <4>2. CASE word' <= MODE
                <5>1. Board # "NET" /\ CHECK \in word' .. WordCount
                    BY <2>2, <3>1, <4>2 DEF WordCount
                <5> QED
                    BY <3>5, <5>1 DEF Valid
            <4> QED
                BY <2>2, <3>1, <4>1, <4>2
        <3>9. phase' # "INIT" /\ phase' \in {"WRITE", "VERIFY"}
            BY <2>2
        <3> QED
            BY <3>1, <3>4, <3>5, <3>6, <3>7, <3>8, <3>9
    <2> QED
        BY <1>7, <2>1, <2>2 DEF Write
<1>8. CASE Verify
    BY <1>8 DEF Verify, Valid
<1>9. CASE PowerFails
    <2>1. known' \subseteq HciModeAllowed /\ phase' = "OFF"
        BY <1>9 DEF PowerFails
    <2> QED
        BY <1>9, <2>1, CutRecord
<1>10. CASE ChipReset
    BY <1>10 DEF ChipReset, Valid
<1>11. CASE UNCHANGED vars
    BY <1>11 DEF vars, Valid
<1> QED
    BY <1>1, <1>2, <1>3, <1>4, <1>5, <1>6, <1>7, <1>8, <1>9, <1>10, <1>11 DEF Next

LEMMA InitInv == Init => Inv
<1> SUFFICES ASSUME Init PROVE Inv
    OBVIOUS
<1> USE BoardTables DEF Init
<1>1. page \in [1 .. WordCount -> Value]
    BY DEF Value, Mode
<1>2. TypeOK
    <2>1. presses \in Nat /\ s_ModeButtonDebounce \in 0 .. DebouncePasses /\ word \in 0 .. WordCount + 1
        BY ModeAssumption DEF ModeAssumption
    <2> QED
        BY <1>1, <2>1 DEF TypeOK
<1>3. PressCounted
    BY DEF PressCounted
<1>4. ~Valid
    <2>1. page[CHECK] \in {ERASED, JUNK}
        OBVIOUS
    <2> QED
        BY <2>1 DEF Valid
<1> QED
    BY <1>2, <1>3, <1>4 DEF Inv, RecordKnown

(* Inv is an invariant. *)
LEMMA InvSafe == Spec => []Inv
<1>1. Inv /\ [Next]_vars => Inv'
    BY TypeStep, PressStep, RecordStep DEF Inv
<1> QED
    BY InitInv, <1>1, PTL DEF Spec

---------------------------------------------------------------------------
(* On every board a boot comes up in a mode it was in, was being given or  *)
(* has by default, wherever the power failed in HciModeNvmStore.           *)
THEOREM BootSafe == Spec => []BootsInKnownMode
<1>1. Inv => BootsInKnownMode
    BY DEF Inv, RecordKnown, BootsInKnownMode
<1> QED
    BY InvSafe, <1>1, PTL

(* HciModeButtonProcess changes the mode at most once a press, whatever    *)
(* resets the press is held through.                                       *)
THEOREM PressSafe == Spec => []OnePressOneChange
<1>1. Inv => OnePressOneChange
    BY DEF Inv, PressCounted, OnePressOneChange
<1> QED
    BY InvSafe, <1>1, PTL

(* Only a HciAppStop that took the controller down leads to the store, and *)
(* nothing brings it up again before the reset.                            *)
LEMMA FlashStep == FlashWithRadioDown /\ [Next]_vars => FlashWithRadioDown'
<1> SUFFICES ASSUME FlashWithRadioDown, [Next]_vars PROVE FlashWithRadioDown'
    OBVIOUS
<1> USE DEF FlashWithRadioDown, appVars
<1>1. CASE Boot
    BY <1>1 DEF Boot
<1>2. CASE HciAppInitMode
    BY <1>2 DEF HciAppInitMode
<1>3. CASE Button
    BY <1>3 DEF Button
<1>4. CASE HciModeButtonProcess
    BY <1>4 DEF HciModeButtonProcess
<1>5. CASE HciAppStop
    BY <1>5 DEF HciAppStop, StopTimesOut
<1>6. CASE Erase
    BY <1>6 DEF Erase, StoreFails
<1>7. CASE Write
    BY <1>7 DEF Write, StoreFails
<1>8. CASE Verify
    BY <1>8 DEF Verify
<1>9. CASE PowerFails
    BY <1>9 DEF PowerFails
<1>10. CASE ChipReset
    BY <1>10 DEF ChipReset
<1>11. CASE UNCHANGED vars
    BY <1>11 DEF vars
<1> QED
    BY <1>1, <1>2, <1>3, <1>4, <1>5, <1>6, <1>7, <1>8, <1>9, <1>10, <1>11 DEF Next

(* HciModeNvmStore erases and writes flash only with MPSL and the SDC      *)
(* down, on every board and wherever power fails or the stop times out.    *)
THEOREM FlashSafe == Spec => []FlashWithRadioDown
<1>1. Init => FlashWithRadioDown
    BY DEF Init, FlashWithRadioDown
<1> QED
    BY <1>1, FlashStep, PTL DEF Spec
=============================================================================
