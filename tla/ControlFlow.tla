----------------------------- MODULE ControlFlow -----------------------------
(***************************************************************************)
(* SyntaxNamePrinter over a file: the dumper hands over the nodes of the   *)
(* tree, then the graph is made of them.                                   *)
(***************************************************************************)
EXTENDS Dumper, FlowGraph, SequencesExt

vars == <<tree, todo, written, dump, at, flow>>

Hand == Walk /\ UNCHANGED <<at, flow>>
Graph == todo = <<>> /\ getCFG /\ UNCHANGED <<tree, todo, written>>
Next == Hand \/ Graph

(* FlowGraph.tla: what the dumper hands over is a list as getCFG expects   *)
(* it, and the graph is made of nothing else: what is proved of every list *)
(* holds of every file.                                                    *)
ReadsAListing == FlowSpec
=============================================================================
