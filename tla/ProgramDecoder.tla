--------------------------- MODULE ProgramDecoder ---------------------------
(***************************************************************************)
(* OpenSprinklerProgram (lines 454-667): the constructor decodes one /jp   *)
(* program record (flags, days0, days1, start times, durations, name)     *)
(* through a chain of setters inside one try block.  Any exception aborts  *)
(* the rest of the chain; the object is still returned, and the           *)
(* attributes the chain did not reach read their class defaults.          *)
(*                                                                         *)
(* The component's state is the object the last constructor call built;   *)
(* `call` is a ghost recording that call's arguments.                      *)
(***************************************************************************)
EXTENDS Integers, Sequences, BitMasks

CONSTANTS
  ProgramInputs,  \* tuples <<flags, days0, days1, sTimes, durs, pname>>, as in pd
  NoProgram       \* no object constructed yet

(* A pd record of /jp is [flags, days0, days1, [start times], [durations], *)
(* name]: the bit tests of the constructor need integers there.  The      *)
(* firmware packs a start time into an unsigned 16-bit word, so the start *)
(* times are naturals (0 marks an unused slot).                            *)
ASSUME ProgramInputsAssumption ==
  ProgramInputs \subseteq Int \X Int \X Int \X Seq(Nat) \X Seq(Int) \X STRING

VARIABLES program, call

vars == <<program, call>>

week == <<"Monday", "Tuesday", "Wednesday", "Thursday", "Friday", "Saturday", "Sunday">>

(* Mutant: the Even test ahead of the Odd test.                           *)
RestrictionEvenFirst(flags) ==
  IF Truthy(Mask(flags, 8)) THEN "Even"
  ELSE IF Truthy(Mask(flags, 4)) THEN "Odd"
  ELSE "None"

(* Mutant: no final else, so the attribute keeps the class default ''.     *)
RestrictionNoDefault(flags) ==
  IF Truthy(Mask(flags, 4)) THEN "Odd"
  ELSE IF Truthy(Mask(flags, 8)) THEN "Even"
  ELSE ""

(* setRestrictions('Odd' if flags & 4 else 'Even' if flags & 8 else 'None') *)
Restriction(flags) ==
  IF Truthy(Mask(flags, 4)) THEN "Odd"
  ELSE IF Truthy(Mask(flags, 8)) THEN "Even"
  ELSE "None"

(* setScheduleType('Weekday' if not (flags & 16 or flags & 32) else 'Interval') *)
ScheduleType(flags) ==
  IF ~(Truthy(Mask(flags, 16)) \/ Truthy(Mask(flags, 32))) THEN "Weekday" ELSE "Interval"

(* setStartTimeType('Fixed' if flags & 64 else 'Repeating')               *)
StartTimeType(flags) == IF Truthy(Mask(flags, 64)) THEN "Fixed" ELSE "Repeating"

(* One {day_name: is_scheduled} per day, Monday first.                     *)
setWeekdaySchedule(d0) ==
  [i \in 1..7 |-> [day |-> week[i], scheduled |-> Truthy(Mask(d0, 2^(i - 1)))]]

(* Note the parameter names: the caller passes (d1, d0).                   *)
setIntervalSchedule(d0, d1) == << [interval |-> d1, delay |-> d0] >>

setSchedule(pstype, d0, d1) ==
  IF pstype = "Weekday" THEN setWeekdaySchedule(d0) ELSE setIntervalSchedule(d1, d0)

(* One repeating start time: basis by bit 13 then bit 12, sign by bit 11,  *)
(* offset in the low 11 bits.                                              *)
RepeatingStartTime(sTime) ==
  [basis  |-> IF Truthy(Mask(sTime, 8192)) THEN "Sunset"
              ELSE IF Truthy(Mask(sTime, 4096)) THEN "Sunrise"
              ELSE "Midnight",
   sign   |-> IF Truthy(Mask(sTime, 2048)) THEN "plus" ELSE "minus",
   offset |-> sTime % 2048]

(* The slots the loop of setRepeatingStartTimes keeps (`for sTime in      *)
(* sTimes: if sTime > 0`): the positive entries, in order.  used[i] is    *)
(* what the loop has kept after its i-th iteration.                        *)
UsedStartTimes(sTimes) ==
  LET used[i \in 0..Len(sTimes)] ==
        IF i = 0 THEN << >>
        ELSE IF sTimes[i] > 0 THEN Append(used[i - 1], sTimes[i]) ELSE used[i - 1]
  IN  used[Len(sTimes)]

(* Mutant: every slot decoded, the unused zeros included.                 *)
setRepeatingStartTimesUnfiltered(sTimes) ==
  [i \in 1..Len(sTimes) |-> RepeatingStartTime(sTimes[i])]

(* setRepeatingStartTimes: the decoded positive entries, in order.         *)
setRepeatingStartTimes(sTimes) ==
  LET used == UsedStartTimes(sTimes)
  IN  [i \in 1..Len(used) |-> RepeatingStartTime(used[i])]

(* __init__.  Every setter up to setSchedule runs.  For a Fixed program    *)
(* setFixedStartTimes resets both start-time lists and then raises         *)
(* NameError (it iterates `sTimes`, its parameter is `startTimes`): the    *)
(* except clause logs it, setDurations never runs and the durations read  *)
(* the class default [].                                                   *)
NewProgram(pname, flags, days0, days1, sTimes, durs) ==
  LET sttype == StartTimeType(flags)
      fixed  == sttype = "Fixed"
  IN [program_name                   |-> pname,
      program_enabled                |-> Truthy(Mask(flags, 1)),
      program_use_weather_adjustment |-> Truthy(Mask(flags, 2)),
      program_restriction            |-> Restriction(flags),
      program_schedule_type          |-> ScheduleType(flags),
      program_start_time_type        |-> sttype,
      program_schedule               |-> setSchedule(ScheduleType(flags), days0, days1),
      program_fixed_start_times      |-> << >>,
      program_repeating_start_times  |-> IF fixed THEN << >> ELSE setRepeatingStartTimes(sTimes),
      program_zone_durations         |-> IF fixed THEN << >> ELSE durs]

(* OpenSprinklerProgram(program_name, flags, days0, days1, startTimes,     *)
(* durations) for one pd record a.                                         *)
Construct(a) ==
  /\ program' = NewProgram(a[6], a[1], a[2], a[3], a[4], a[5])
  /\ call' = a

Init == program = NoProgram /\ call = NoProgram

Next == \E a \in ProgramInputs : Construct(a)

Spec == Init /\ [][Next]_vars
-----------------------------------------------------------------------------
Basis == {"Midnight", "Sunrise", "Sunset"}

TypeOK ==
  \/ program = NoProgram /\ call = NoProgram
  \/ /\ call \in ProgramInputs
     /\ program.program_enabled \in BOOLEAN
     /\ program.program_use_weather_adjustment \in BOOLEAN
     /\ program.program_restriction \in {"Odd", "Even", "None"}
     /\ program.program_schedule_type \in {"Weekday", "Interval"}
     /\ program.program_start_time_type \in {"Fixed", "Repeating"}
     /\ \A i \in DOMAIN program.program_repeating_start_times :
          program.program_repeating_start_times[i].basis \in Basis

(* The flag and schedule table of the spec (4.3), stated by bit          *)
(* position: bit 0 enabled, bit 1 weather adjustment, bit 2 Odd before    *)
(* bit 3 Even, bit 4 or 5 Interval, bit 6 Fixed; a weekday schedule has   *)
(* day d scheduled iff bit d of days0.  OpenSprinklerProgram.__init__     *)
(* tests these bits with masks (`flags & 4`, `days0 & 2**i`).             *)
FlagsDecodedAsSpecified ==
  program # NoProgram =>
    LET f == call[1]  d0 == call[2]  p == program
    IN /\ p.program_enabled = BitSet(f, 0)
       /\ p.program_use_weather_adjustment = BitSet(f, 1)
       /\ p.program_restriction = CASE BitSet(f, 2) -> "Odd"
                                    [] ~BitSet(f, 2) /\ BitSet(f, 3) -> "Even"
                                    [] OTHER -> "None"
       /\ (p.program_schedule_type = "Interval") = (BitSet(f, 4) \/ BitSet(f, 5))
       /\ (p.program_start_time_type = "Fixed") = BitSet(f, 6)
       /\ p.program_schedule_type = "Weekday" =>
            p.program_schedule = [d \in 1..7 |-> [day |-> week[d], scheduled |-> BitSet(d0, d - 1)]]

(* f lists the non-zero slots of the start-time array s, in increasing    *)
(* order: the slots "start-time decoding, applied per non-zero entry"     *)
(* (spec 4.3) visits, zero entries being unused slots.                    *)
ListsNonZeroSlots(f, s) ==
  /\ \A k, l \in DOMAIN f : k < l => f[k] < f[l]
  /\ {f[k] : k \in DOMAIN f} = {i \in 1..Len(s) : s[i] # 0}

(* Spec 4.3's decoding of one repeating start time x: bit 13 (0x2000)     *)
(* Sunset, else bit 12 (0x1000) Sunrise, else Midnight; bit 11 (0x800)    *)
(* plus, else minus; the offset is the low 11 bits of x.                  *)
DecodesAsSpecified(x, r) ==
  /\ r.basis = CASE BitSet(x, 13) -> "Sunset"
                 [] ~BitSet(x, 13) /\ BitSet(x, 12) -> "Sunrise"
                 [] OTHER -> "Midnight"
  /\ (r.sign = "plus") = BitSet(x, 11)
  /\ r.offset \in 0..2047 /\ x = r.offset + 2048 * (x \div 2048)

(* The repeating start times of spec 4.3 (setRepeatingStartTimes): the    *)
(* list holds one decoded entry per non-zero slot of the record's start   *)
(* array, in slot order, and entry k decodes as the spec says from the    *)
(* slot f[k] it stands for.  The basis mapping is the spec's (bit 13      *)
(* Sunset); the comments at lines 647 and 649 name bit 0x2000 sunrise and *)
(* 0x1000 sunset, the opposite, which spec 4.3 leaves an open question.   *)
StartTimesDecodedAsSpecified ==
  program # NoProgram /\ program.program_start_time_type = "Repeating" =>
    LET s == call[4]  rst == program.program_repeating_start_times
    IN \E f \in [1..Len(rst) -> 1..Len(s)] :
         /\ ListsNonZeroSlots(f, s)
         /\ \A k \in 1..Len(rst) : DecodesAsSpecified(s[f[k]], rst[k])

(* Spec 4.3: an Interval program's schedule is {interval: days1,          *)
(* delay: days0}.  setSchedule passes (d1, d0) to setIntervalSchedule,    *)
(* whose parameters are named (d0, d1).                                    *)
IntervalScheduleAsSpecified ==
  program # NoProgram /\ program.program_schedule_type = "Interval" =>
    program.program_schedule = << [interval |-> call[3], delay |-> call[2]] >>

(* Spec 4.3: a Fixed program keeps its non-zero start times verbatim, in  *)
(* slot order, and its durations as given (setFixedStartTimes,            *)
(* setDurations).                                                          *)
FixedStartTimesKept ==
  program # NoProgram /\ program.program_start_time_type = "Fixed" =>
    LET fst == program.program_fixed_start_times
    IN /\ \E f \in [1..Len(fst) -> 1..Len(call[4])] :
            ListsNonZeroSlots(f, call[4]) /\ fst = [k \in 1..Len(fst) |-> call[4][f[k]]]
       /\ program.program_zone_durations = call[5]
=============================================================================
