------------------------------ MODULE CanFrames -------------------------------
(***************************************************************************)
(* rbt_comm_frame.rs: what becomes of a command and of a sample on their way *)
(* through the 8-byte payloads of CAN 0x100, 0x203 and 0x204.                *)
(*                                                                         *)
(* Angles travel as hundredths of a degree in an i16; here a step of that    *)
(* code is Fine units, and the code's range is CodeMin .. CodeMax.  Modes    *)
(* share one byte of flags.                                                  *)
(***************************************************************************)
EXTENDS Integers

CONSTANTS
  Fine,      \* units of an angle in one step of the code
  CodeMin, CodeMax,   \* the range of i16
  Angles,    \* angles before they are encoded, in units
  NaN        \* an angle that is not finite

ASSUME CanFramesAssumption ==
  /\ Fine \in Nat \ {0}
  /\ CodeMin \in Int /\ CodeMax \in Int
  /\ CodeMin <= 0 /\ 0 <= CodeMax
  /\ Angles \subseteq Int
  /\ NaN \notin Int

VARIABLES
  said,    \* the CtrlData or SensData handed to the encoder
  wire,    \* its payload, or the two of a pair
  heard    \* what the decoder made of it

frameVars == <<said, wire, heard>>

\* ShotMode, ShotBuffMode and AimingState by the two bits they have on the wire.
Controls == [yaw : Angles \cup {NaN}, pitch : Angles \cup {NaN},
             shot : 0 .. 3, buff : 0 .. 1, aim : 0 .. 3]

TaskBytes == [AutoShot |-> 1, HitBigBuff |-> 2, HitSmallBuff |-> 3, HitOutpost |-> 4]
TeamBytes == [Red |-> 170, Blue |-> 187]
Refused == [refused |-> TRUE]
Sof == 51
Eof == 238

\* f64::round goes half a step away from zero.
Rounded(v) == IF v >= 0 THEN (2 * v + Fine) \div (2 * Fine)
              ELSE -((Fine - 2 * v) \div (2 * Fine))

Clamped(code) ==
  CASE code < CodeMin -> CodeMin [] code > CodeMax -> CodeMax [] OTHER -> code

Encoded(v) == IF v = NaN THEN 0 ELSE Clamped(Rounded(v))

\* Mutant: the aiming state is one bit too low.
Overlapping(c) == c.shot + 4 * c.buff + 8 * c.aim

Flags(c) == c.shot + 4 * c.buff + 16 * c.aim

Bits(flags, low) == (flags \div low) % 4

-----------------------------------------------------------------------------
(* Encoding and decoding *)

ControlPayload(c, seq) ==
  [sof |-> Sof, flags |-> Flags(c), seq |-> seq, eof |-> Eof,
   pitch |-> Encoded(c.pitch), yaw |-> Encoded(c.yaw)]

\* A buffer mode the wire could hold but no CtrlData has reads as off.
ControlOf(p) ==
  IF p.sof # Sof \/ p.eof # Eof THEN Refused
  ELSE [yaw |-> p.yaw * Fine, pitch |-> p.pitch * Fine,
        shot |-> Bits(p.flags, 1), buff |-> IF Bits(p.flags, 4) = 1 THEN 1 ELSE 0,
        aim |-> Bits(p.flags, 16)]

\* SensData::serialize_pair, whose counterpart on the MCU is external: it may
\* put bytes there that stand for no mode and no team.
Samples == [task : 0 .. 5, team : {0} \cup {TeamBytes[t] : t \in DOMAIN TeamBytes},
            yaw : Angles \cup {NaN}, permit : 0 .. 2]

\* What stands for "nothing yet" is nothing that could have been said.
ASSUME CanFramesNothing == NaN \notin [kind : {"control", "sample"}, data : Controls \cup Samples]

PairPayload(s) ==
  [head |-> [sof |-> Sof, task |-> s.task, team |-> s.team, yaw |-> Encoded(s.yaw)],
   tail |-> [permit |-> s.permit, eof |-> Eof]]

\* try_from_wire refuses a task it does not know, which loses the pair;
\* SelfFraction::from_u8 takes a team it does not know for Red.
SampleOf(p) ==
  IF \/ p.head.sof # Sof \/ p.tail.eof # Eof
     \/ \A t \in DOMAIN TaskBytes : TaskBytes[t] # p.head.task
  THEN Refused
  ELSE [task |-> CHOOSE t \in DOMAIN TaskBytes : TaskBytes[t] = p.head.task,
        team |-> IF p.head.team = TeamBytes.Blue THEN "Blue" ELSE "Red",
        yaw |-> p.head.yaw * Fine,
        permit |-> p.tail.permit # 0]

-----------------------------------------------------------------------------
(* The transfers *)

CanFramesInit == said = NaN /\ wire = NaN /\ heard = NaN

EncodeControl ==
  /\ said = NaN
  /\ \E c \in Controls :
       /\ said' = [kind |-> "control", data |-> c]
       /\ wire' = ControlPayload(c, 0)
  /\ UNCHANGED heard

EncodeSample ==
  /\ said = NaN
  /\ \E s \in Samples :
       /\ said' = [kind |-> "sample", data |-> s]
       /\ wire' = PairPayload(s)
  /\ UNCHANGED heard

Decode ==
  /\ wire # NaN /\ heard = NaN
  /\ heard' = IF said.kind = "control" THEN ControlOf(wire) ELSE SampleOf(wire)
  /\ UNCHANGED <<said, wire>>

\* External: a frame of another sender under the same identifier, without the marks.
Foreign ==
  /\ wire # NaN /\ heard = NaN
  /\ wire' = IF said.kind = "control" THEN [wire EXCEPT !.sof = 0]
             ELSE [wire EXCEPT !.tail.eof = 0]
  /\ UNCHANGED <<said, heard>>

Handled ==
  /\ heard # NaN
  /\ said' = NaN /\ wire' = NaN /\ heard' = NaN

CanFramesNext == EncodeControl \/ EncodeSample \/ Foreign \/ Decode \/ Handled

CanFramesSpec == CanFramesInit /\ [][CanFramesNext]_frameVars
-----------------------------------------------------------------------------
(* Properties *)

\* An angle arrives within half a step, an angle beyond the code's range as the
\* end of the range it lies beyond, and one that is not finite as zero.
Near(received, v) ==
  IF v = NaN THEN received = 0
  ELSE CASE v > CodeMax * Fine -> received = CodeMax * Fine
         [] v < CodeMin * Fine -> received = CodeMin * Fine
         [] OTHER              -> 2 * (received - v) \in -Fine .. Fine

\* What is taken from the wire is what was put there: a command with its shot,
\* buff and aiming modes, a sample with its task and its permission to fire.
\* Only the team can change, and only where no team was named.
FramesMeanWhatWasSent ==
  heard \notin {NaN, Refused} =>
    /\ Near(heard.yaw, said.data.yaw)
    /\ said.kind = "control" =>
         /\ Near(heard.pitch, said.data.pitch)
         /\ <<heard.shot, heard.buff, heard.aim>>
              = <<said.data.shot, said.data.buff, said.data.aim>>
    /\ said.kind = "sample" =>
         /\ TaskBytes[heard.task] = said.data.task
         /\ heard.permit <=> said.data.permit # 0
         /\ said.data.team # 0 => TeamBytes[heard.team] = said.data.team
===============================================================================
