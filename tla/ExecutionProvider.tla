--------------------------- MODULE ExecutionProvider --------------------------
(***************************************************************************)
(* configure_session_builder of se3_ort_ep: which ONNX Runtime execution     *)
(* provider a session gets.  The detectors and the locomotion policy all     *)
(* come through here when they load their models.                            *)
(*                                                                         *)
(* "auto" on a Jetson (aarch64 Linux) looks for the libraries and tries      *)
(* TensorRT, CUDA and the CPU in turn, recovering the builder from a         *)
(* provider that will not register.  Everything else is strict.              *)
(***************************************************************************)
Targets == {"macos", "jetson", "x86_64", "other"}
Providers == {"CoreML", "OpenVINO", "TensorRT", "CUDA", "CPU"}

\* An empty setting is "auto", and "trt" is TensorRT.
Settings == {"auto", "unknown"} \cup Providers

\* What linux_aarch64_*_available look for.
Libraries == {"cuda", "cudnn", "nvinfer"}

VARIABLES
  target,      \* what the program was compiled for
  setting,     \* the configured provider
  installed,   \* the libraries found on a Jetson
  broken,      \* providers that fail to register although they are compiled in
  unloadable,  \* those under which the model itself fails to load
  tried,       \* providers that registration was attempted with
  provider,    \* the one the builder got; "none" before, "error" if it got none
  session      \* commit_from_file: "none", "ready" or "failed"

providerVars == <<target, setting, installed, broken, unloadable, tried, provider,
                  session>>

ProviderInit ==
  /\ target \in Targets
  /\ setting \in Settings
  /\ installed \in IF target = "jetson" THEN SUBSET Libraries ELSE {{}}
  /\ broken \in SUBSET (Providers \ {"CPU"})
  /\ unloadable \in {{}, {"TensorRT", "CUDA"}}
  /\ tried = {}
  /\ provider = "none"
  /\ session = "none"

CudaStack == {"cuda", "cudnn"} \subseteq installed
TensorRtStack == CudaStack /\ "nvinfer" \in installed

\* What each target compiles in; the others answer with an error.
CompiledIn ==
  CASE target = "macos"  -> {"CoreML", "TensorRT", "CPU"}
    [] target = "jetson" -> {"TensorRT", "CUDA", "CPU"}
    [] target = "x86_64" -> {"OpenVINO", "TensorRT", "CUDA", "CPU"}
    [] OTHER             -> {"TensorRT", "CPU"}

\* with_execution_providers, with error_on_failure.  External: on a Jetson a
\* provider whose libraries are missing fails too.
Registers(p) ==
  /\ p \in CompiledIn \ broken
  /\ target = "jetson" => /\ p = "CUDA" => CudaStack
                          /\ p = "TensorRT" => TensorRtStack

\* default_execution_provider, off the Jetson.
Default ==
  CASE target = "macos"  -> "CoreML"
    [] target = "x86_64" -> "OpenVINO"
    [] OTHER             -> "CPU"

\* The order of configure_auto_session_builder on a Jetson.
Chain == {p \in {"TensorRT", "CUDA", "CPU"} :
            /\ p = "TensorRT" => TensorRtStack
            /\ p = "CUDA" => CudaStack}
Before(p) ==
  CASE p = "TensorRT" -> {}
    [] p = "CUDA"     -> {"TensorRT"}
    [] OTHER          -> {"TensorRT", "CUDA"}

Chained == setting = "auto" /\ target = "jetson"

\* The one provider of a strict setting.
Strict == IF setting = "auto" THEN Default ELSE setting

Unsettled == provider = "none"

\* Mutant: a provider that failed to register ends the chain.
GivesUp(p) == provider' = "error"

\* err.recover() hands the builder back for the next provider.
TriesNext(p) == UNCHANGED provider

TryAuto ==
  /\ Unsettled /\ Chained
  /\ \E p \in Chain \ tried :
       /\ Chain \cap Before(p) \subseteq tried
       /\ tried' = tried \cup {p}
       /\ IF Registers(p) THEN provider' = p ELSE TriesNext(p)
  /\ UNCHANGED <<target, setting, installed, broken, unloadable, session>>

TryStrict ==
  /\ Unsettled /\ ~Chained
  /\ tried' = IF setting = "unknown" THEN {} ELSE {Strict}
  /\ provider' = IF setting # "unknown" /\ Registers(Strict) THEN Strict ELSE "error"
  /\ UNCHANGED <<target, setting, installed, broken, unloadable, session>>

\* The caller loads its model; the provider is settled by then, and no other
\* is tried when the model does not compile on it.
Commit ==
  /\ provider \in Providers /\ session = "none"
  /\ session' = IF provider \in unloadable THEN "failed" ELSE "ready"
  /\ UNCHANGED <<target, setting, installed, broken, unloadable, tried, provider>>

ProviderNext == TryAuto \/ TryStrict \/ Commit

ProviderSpec == ProviderInit /\ [][ProviderNext]_providerVars
-----------------------------------------------------------------------------
(* Properties *)

\* "auto" on a Jetson never ends without a provider, and settles for a slower
\* one only where every faster one fails to register; elsewhere, and for a
\* provider asked for by name, that one is used or nothing is: it is never
\* quietly replaced.
BestThatRegisters ==
  /\ Chained => /\ provider # "error"
                /\ provider \in Providers =>
                     \A p \in Before(provider) : ~Registers(p)
  /\ ~Chained /\ provider \in Providers => provider = Strict
===============================================================================
