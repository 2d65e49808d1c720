----------------------------- MODULE AlarmInput ------------------------------
(***************************************************************************)
(* The alarm inputs of the gateway (gpio.c, alarm_proc).  Every            *)
(* ALARM_CYCLE the thread reads all inputs, one after another; an input    *)
(* whose reading differs from the one before is in alarm, and stays so     *)
(* until ALARM_OFF_TIMEOUT readings in a row have shown no change.         *)
(*                                                                         *)
(* The lines change whenever they like.  A reading can fail; get_alarm     *)
(* does not look at get_gpio's result and then stores what its local       *)
(* variable holds: the input before it, or for the first one garbage.      *)
(***************************************************************************)
EXTENDS Naturals

CONSTANTS
    ALARM_MAX,          \* number of inputs
    ALARM_OFF_TIMEOUT,  \* readings without a change that end an alarm
    CountModulus        \* 2^width of alarm_off_count (u32)

ASSUME AlarmAssumption ==
    /\ ALARM_MAX \in Nat \ {0}
    /\ ALARM_OFF_TIMEOUT \in Nat \ {0}
    /\ CountModulus \in Nat
    /\ ALARM_OFF_TIMEOUT < CountModulus

Inputs == 1..ALARM_MAX

Levels   == {"GS_LOW", "GS_HIGH"}
Readings == Levels \cup {"garbage"}

ALARM_ON  == "ALARM_ON"
ALARM_OFF == "ALARM_OFF"

VARIABLES
    level,            \* the lines themselves
    input_pc,         \* "first" and "read": in get_alarm; "judge": in the loop after it
    i,                \* the input that is next
    alarm,            \* get_alarm's local variable
    alarm_init,       \* the readings of the last round
    alarm_update,     \* the readings of this round
    alarm_off_count,
    g_alarm_in,
    quiet,            \* history: rounds since the input's reading last changed
    changed,          \* history: the line has changed since power-on
    failed            \* history: a reading has failed

inputVars == <<level, input_pc, i, alarm, alarm_init, alarm_update, alarm_off_count,
               g_alarm_in, quiet, changed, failed>>

\* init_alarm and the top of alarm_proc.
InputInit ==
    /\ level \in [Inputs -> Levels]
    /\ input_pc = "first" /\ i = 1
    /\ alarm \in Readings
    /\ alarm_init = [n \in Inputs |-> "garbage"]
    /\ alarm_update = [n \in Inputs |-> "garbage"]
    /\ alarm_off_count = [n \in Inputs |-> 0]
    /\ g_alarm_in = [n \in Inputs |-> ALARM_OFF]
    /\ quiet = [n \in Inputs |-> ALARM_OFF_TIMEOUT]
    /\ changed = [n \in Inputs |-> "no"]
    /\ failed = "no"

-----------------------------------------------------------------------------
\* Mutant: the readings of the first round are not kept.
Store_Forgets ==
    /\ alarm_update' = [alarm_update EXCEPT ![i] = alarm']
    /\ UNCHANGED alarm_init

\* alarm_in[i] = (u8) alarm, into the array get_alarm was called with.
Store ==
    \/ /\ input_pc = "first"
       /\ alarm_init' = [alarm_init EXCEPT ![i] = alarm']
       /\ UNCHANGED alarm_update
    \/ /\ input_pc = "read"
       /\ alarm_update' = [alarm_update EXCEPT ![i] = alarm']
       /\ UNCHANGED alarm_init

\* On to the next input, or to what follows get_alarm.
NextInput ==
    \/ /\ i < ALARM_MAX
       /\ i' = i + 1
       /\ UNCHANGED input_pc
    \/ /\ i = ALARM_MAX
       /\ i' = 1
       /\ input_pc' = IF input_pc = "first" THEN "read" ELSE "judge"

\* get_gpio reads the line.
ReadOk ==
    /\ input_pc \in {"first", "read"}
    /\ alarm' = level[i]
    /\ Store /\ NextInput
    /\ UNCHANGED <<level, alarm_off_count, g_alarm_in, quiet, changed, failed>>

\* get_gpio fails and leaves the local variable alone.
ReadFails ==
    /\ input_pc \in {"first", "read"}
    /\ alarm' \in (IF i = 1 THEN Readings ELSE {alarm})
    /\ failed' = "yes"
    /\ Store /\ NextInput
    /\ UNCHANGED <<level, alarm_off_count, g_alarm_in, quiet, changed>>

\* Mutant: only a rising line counts.
Edge_Rising == alarm_update[i] = "GS_HIGH" /\ alarm_init[i] # "GS_HIGH"

\* The reading differs from the one of the last round.
Edge == alarm_update[i] # alarm_init[i]

\* Mutant: a change during an alarm does not start the waiting time again.
Count_NoRestart ==
    IF Edge /\ g_alarm_in[i] = ALARM_OFF THEN 0 ELSE (alarm_off_count[i] + 1) % CountModulus

\* alarm_off_count after this round.
Count == IF Edge THEN 0 ELSE (alarm_off_count[i] + 1) % CountModulus

\* Mutant: an alarm never ends.
Verdict_Sticky ==
    IF Edge \/ g_alarm_in[i] = ALARM_ON THEN ALARM_ON ELSE ALARM_OFF

\* g_alarm_in after this round.
Verdict ==
    IF (Edge \/ g_alarm_in[i] = ALARM_ON) /\ Count < ALARM_OFF_TIMEOUT
    THEN ALARM_ON ELSE ALARM_OFF

\* One turn of the loop over the inputs; after the last one the readings of
\* this round become the ones to compare with.
Judge ==
    /\ input_pc = "judge"
    /\ alarm_off_count' = [alarm_off_count EXCEPT ![i] = Count]
    /\ g_alarm_in' = [g_alarm_in EXCEPT ![i] = Verdict]
    /\ quiet' = [quiet EXCEPT ![i] = IF alarm_update[i] # alarm_init[i] THEN 0
                                     ELSE IF @ < ALARM_OFF_TIMEOUT THEN @ + 1 ELSE @]
    /\ \/ /\ i < ALARM_MAX
          /\ i' = i + 1
          /\ UNCHANGED <<input_pc, alarm_init>>
       \/ /\ i = ALARM_MAX
          /\ i' = 1
          /\ input_pc' = "read"
          /\ alarm_init' = alarm_update
    /\ UNCHANGED <<level, alarm, alarm_update, changed, failed>>

\* A line changes.
LineChanges ==
    \E n \in Inputs :
        /\ level' = [level EXCEPT ![n] = IF @ = "GS_LOW" THEN "GS_HIGH" ELSE "GS_LOW"]
        /\ changed' = [changed EXCEPT ![n] = "yes"]
        /\ UNCHANGED <<input_pc, i, alarm, alarm_init, alarm_update, alarm_off_count,
                       g_alarm_in, quiet, failed>>

InputNext == ReadOk \/ ReadFails \/ Judge \/ LineChanges

InputSpec == InputInit /\ [][InputNext]_inputVars

\* alarm_proc never blocks for good: usleep and the reads of /sys return.
InputFairSpec == InputSpec /\ WF_inputVars(ReadOk \/ ReadFails \/ Judge)

-----------------------------------------------------------------------------
(* Properties *)

\* Levels, readings, counters and indices stay in their ranges.
InputTypeOK ==
    /\ level \in [Inputs -> Levels]
    /\ input_pc \in {"first", "read", "judge"}
    /\ i \in Inputs
    /\ alarm \in Readings
    /\ alarm_init \in [Inputs -> Readings]
    /\ alarm_update \in [Inputs -> Readings]
    /\ alarm_off_count \in [Inputs -> 0..(CountModulus - 1)]
    /\ g_alarm_in \in [Inputs -> {ALARM_ON, ALARM_OFF}]
    /\ quiet \in [Inputs -> 0..ALARM_OFF_TIMEOUT]
    /\ changed \in [Inputs -> {"yes", "no"}]
    /\ failed \in {"yes", "no"}

\* An input is in alarm exactly while its reading has changed in one of the last
\* ALARM_OFF_TIMEOUT rounds: a change in mid-alarm starts the time again, and
\* the wrap-around of a counter that runs on for years brings no alarm back.
AlarmWindow ==
    \A n \in Inputs : g_alarm_in[n] = ALARM_ON <=> quiet[n] < ALARM_OFF_TIMEOUT

\* A line that has never moved is never in alarm, whatever the other lines do,
\* as long as no reading fails.
NoFalseAlarm ==
    \A n \in Inputs :
        g_alarm_in[n] = ALARM_ON => changed[n] = "yes" \/ failed = "yes"

\* The inductive invariants behind the two.
WindowInv ==
    \A n \in Inputs :
        /\ g_alarm_in[n] = ALARM_ON <=> quiet[n] < ALARM_OFF_TIMEOUT
        /\ g_alarm_in[n] = ALARM_ON => alarm_off_count[n] = quiet[n]

\* The arrays that hold a reading of input n.
InitRead(n)   == input_pc # "first" \/ n < i
UpdateRead(n) == input_pc = "judge" \/ (input_pc = "read" /\ n < i)

QuietInv ==
    failed = "no" =>
        \A n \in Inputs : changed[n] = "no" =>
            /\ g_alarm_in[n] = ALARM_OFF
            /\ InitRead(n) => alarm_init[n] = level[n]
            /\ UpdateRead(n) => alarm_update[n] = level[n]

\* The alarm flag, the counter and the arrays of readings stay in step.
AlarmInv == InputTypeOK /\ WindowInv /\ QuietInv

\* A line that takes a level other than the one read last raises the alarm,
\* unless it goes back before it is noticed.
ChangeRaisesAlarm ==
    \A n \in Inputs, l \in Levels :
        (input_pc = "read" /\ alarm_init[n] # l /\ level[n] = l)
            ~> (g_alarm_in[n] = ALARM_ON \/ level[n] # l \/ failed = "yes")

=============================================================================
