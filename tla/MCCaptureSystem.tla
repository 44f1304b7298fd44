-------------------------- MODULE MCCaptureSystem --------------------------
(* An instance of CaptureSystem for TLC.                                    *)
EXTENDS CaptureSystem

CONSTANTS s1, c1, c2, u1, u2

Line(mark, words) == [mark |-> mark, words |-> words]

(* A known and an unknown mode, one without blanks, a comment, a path.      *)
ConfigLines ==
  {Line("", <<"mode", "=", "openssl">>), Line("", <<"mode", "=", "boringssl">>),
   Line("", <<"mode", "=", "wolfssl">>), Line("", <<"mode=openssl">>),
   Line("#", <<"#mode", "=", "openssl">>), Line("", <<"pod_node_config", "=", "other">>)}

(* Two entries for one pod, another pod, an entry without a blank, which    *)
(* is one word, and two kinds of comment.                                   *)
MappingLines ==
  {Line("", <<"p1", "n1">>), Line("", <<"p1", "n2", "more">>), Line("", <<"p2", "n1">>),
   Line("", <<"p2=n2">>), Line("#", <<"#p2", "n2">>), Line("", <<"#", "p2", "n2">>), Line("\n", <<>>)}

MCConfigSet == {NoFile} \cup SeqOf(ConfigLines, 2)
MCMappingSet ==
  {[default |-> <<Line("", <<"p2", "n2">>)>>, other |-> f] : f \in SeqOf(MappingLines, 3)}
    \cup {[default |-> <<Line("", <<"p1", "n2">>)>>]}
MCPods == {"p1", "p2", "#"}
MCTuples == {u1, u2}
MCFlowOf == <<u1, u2, u1>>
============================================================================
