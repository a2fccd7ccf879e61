---------------------------- MODULE MCFuzzDriver ----------------------------
(***************************************************************************)
(* FuzzDriver on a harness with two bugs: two seeds that crash, one of     *)
(* them below the corpus directory, which minimizing can turn one into the *)
(* other, or into an input that is fine, and one that crashes at times.    *)
(*                                                                         *)
(* Bug a goes through one function, called from the harness, and a report  *)
(* of it goes on with another stack that varies, or, under Jazzer.js, has  *)
(* the one of an error the harness caught and logged before its own.  Bug  *)
(* b has no frame of the target on its stack, or is one of an engine's own *)
(* detectors.                                                              *)
(***************************************************************************)
EXTENDS FuzzDriver

MCBehaviour ==
  [i \in Inputs |-> CASE i = "seed a" -> "a" [] i = "nested b" -> "b" [] OTHER -> "fine"]

\* Where what bug a broke was allocated, or what caused what it threw.
Elsewhere == {"parse", "open"}

SanitizerPrints ==
  [bug \in Bugs |->
     IF bug = "a"
     THEN {<<Text, Says("sanitizer", "heap-buffer-overflow"),
             RuntimeFrame(0, "memcpy"), Frame(1, "copy"), Frame(2, "harness"), Text,
             RuntimeFrame(0, "malloc"), Frame(1, function), Frame(2, "harness"),
             Says("summary", "heap-buffer-overflow")>> : function \in Elsewhere}
     ELSE {<<Says("summary", "undefined-behavior"), Says("libfuzzer", "deadly-signal"),
             RuntimeFrame(0, "raise"), RuntimeFrame(1, "abort")>>,
           <<Says("libfuzzer", "deadly-signal"),
             RuntimeFrame(0, "raise"), RuntimeFrame(1, "abort")>>}]

JazzerPrints ==
  [bug \in Bugs |->
     IF bug = "a"
     THEN {<<Says("uncaught", "typeerror"), Frame(0, "copy"), Frame(0, "harness"), Text,
             Frame(0, function), Says("reported", NoKind)>> : function \in Elsewhere}
          \cup {<<Text, Frame(0, "warn"), Frame(0, "harness"), Text,
                 Says("uncaught", "typeerror"), Frame(0, "copy"), Frame(0, "harness")>>}
     ELSE {<<Says("reported", "command-injection"), RuntimeFrame(0, "exec"),
             Frame(0, "harness"), Says("reported", NoKind)>>}]

MCPrints ==
  [engine_ \in Engines |-> IF engine_ = "libfuzzer" THEN SanitizerPrints ELSE JazzerPrints]

MCFailure ==
  [engine_ \in Engines |-> [bug \in Bugs |->
     IF engine_ = "libfuzzer"
     THEN IF bug = "a"
          THEN [kind |-> "heap-buffer-overflow",
                stack |-> <<RuntimeFrame(0, "memcpy"), Frame(1, "copy"), Frame(2, "harness")>>]
          ELSE [kind |-> "deadly-signal",
                stack |-> <<RuntimeFrame(0, "raise"), RuntimeFrame(1, "abort")>>]
     ELSE IF bug = "a"
          THEN [kind |-> "typeerror", stack |-> <<Frame(0, "copy"), Frame(0, "harness")>>]
          ELSE [kind |-> "command-injection",
                stack |-> <<RuntimeFrame(0, "exec"), Frame(0, "harness")>>]]]

=============================================================================
