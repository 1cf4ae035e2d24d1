-------------------------- MODULE MCLocomotionInputs --------------------------
(***************************************************************************)
(* What surrounds the locomotion policy: the gamepad, the bytes of a stream, *)
(* the simulator, the values of a step, the serial port, and the execution   *)
(* provider its session runs on.  They share no state, so each behaviour is  *)
(* one of one of them, and the others stay as they began.                    *)
(* Two pads, one of them selected or either; heights are steps.             *)
(***************************************************************************)
EXTENDS GamepadCommand, StreamParser, LocomotionSim, PolicyIo, CdcPort,
        ExecutionProvider, SequencesExt

MCPads == {0, 1}
MCSelectors == {AnyPad, 1}
MCSof == <<90, 91>>
MCVersion == 1

\* Weak, so that noise is taken for a frame often enough.
MCCrc(bytes) == FoldLeft(LAMBDA sum, byte : (sum + byte) % 3, 0, bytes)

\* Frames; the last payload is a frame itself.
MCFrames == {Packed(<<>>), Packed(<<1>>), Packed(<<90, 91, 1, 0, 2>>)}

\* Half a start, both halves, a header of another version or too great a length, headers
\* of frames that are not there, a frame whose rest was lost, and one byte that
\* may be the check sum of any of them.
MCNoise == {<<90>>, <<91>>, <<90, 91>>, <<90, 91, 2, 0>>, <<90, 91, 1, 6>>,
            <<90, 91, 1, 5>>, <<90, 91, 1, 4, 90, 91, 1>>, <<0>>}

\* Bound: frames and pieces of noise in a stream.
MaxSegments == 3
MCStreams ==
  {FlattenSeq(segments) :
    segments \in UNION {[1 .. n -> MCFrames \cup MCNoise] : n \in 1 .. MaxSegments}}

VARIABLE input

\* What the simulator's loop and a step have besides the variables of the policy.
simOnly == <<pc, hasState, age, lag, output, starts, told, toRuntime, toSim, simVars>>
ioOnly == <<checkpoint, dryRun, logging, diskFull, phase, poisoned, logStep, report>>

inputs == <<vars, parserVars, linkVars, ioVars, cdcPortVars, providerVars>>

\* What a behaviour is not about has one start.
InputInit ==
  /\ input \in {"gamepad", "stream", "simulator", "policy", "port", "provider"}
  /\ SimInit
  /\ Init /\ (input # "gamepad" => plugged = {} /\ selector = AnyPad)
  /\ ParserInit /\ (input # "stream" => stream = <<0>>)
  /\ CdcPortInit /\ (input # "port" => node = "absent")
  /\ PolicyIoInit /\ (input # "policy" =>
       /\ checkpoint = [onnx |-> TRUE, gru |-> TRUE, shapes |-> TRUE,
                        obs |-> NumObs, actions |-> NumActions]
       /\ ~dryRun /\ ~logging)
  /\ ProviderInit /\ (input # "provider" =>
       target = "other" /\ setting = "auto" /\ broken = {} /\ unloadable = {})

InputNext ==
  /\ UNCHANGED input
  /\ \/ /\ input = "gamepad" /\ Next
        /\ UNCHANGED <<parserVars, linkVars, ioVars, cdcPortVars, providerVars>>
     \/ /\ input = "stream" /\ ParserNext
        /\ UNCHANGED <<vars, linkVars, ioVars, cdcPortVars, providerVars>>
     \/ /\ input = "simulator" /\ SimNext
        /\ UNCHANGED <<vars, parserVars, ioOnly, cdcPortVars, providerVars>>
     \/ /\ input = "policy" /\ PolicyIoNext
        /\ UNCHANGED <<vars, parserVars, simOnly, cdcPortVars, providerVars>>
     \/ /\ input = "port" /\ CdcPortNext
        /\ UNCHANGED <<vars, parserVars, linkVars, ioVars, providerVars>>
     \/ /\ input = "provider" /\ ProviderNext
        /\ UNCHANGED <<vars, parserVars, linkVars, ioVars, cdcPortVars>>

InputSpec == InputInit /\ [][InputNext]_<<inputs, input>> /\ SimFairness
=============================================================================
