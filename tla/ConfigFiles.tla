---------------------------- MODULE ConfigFiles ----------------------------
(***************************************************************************)
(* The two files the capture process reads when it starts: its             *)
(* configuration (load_config of capture/src/main.c) and the table of pods *)
(* and nodes (capture/src/pod_mapping.c).                                  *)
(*                                                                         *)
(* A line is [mark, words]: its first character if that is "#" or "\n",    *)
(* and the words sscanf finds in it.  An "=" that starts a word is a word  *)
(* of its own ("mode = x" and "mode =x" have three), one inside a word is  *)
(* not ("mode=x" is one word).  Lines and words fit their buffers.         *)
(***************************************************************************)
EXTENDS Integers, SequencesExt, FiniteSetsExt

CONSTANTS DefaultPath, \* DEFAULT_POD_NODE_CONFIG
          MaxMappings, \* MAX_MAPPINGS (1024)
          NoFile,      \* a file that cannot be opened
          NoTable,     \* init_pod_node_mapping's NULL
          NoNode       \* get_node_by_pod's NULL

ASSUME MappingsAssumption == MaxMappings \in Nat
ASSUME TableAssumption == NoTable \notin Seq([pod_name : STRING, node_name : STRING])

ModeNames == [tlshub |-> "TLSHUB", openssl |-> "OPENSSL", boringssl |-> "BORINGSSL"]

Skipped(line) == line.mark \in {"#", "\n"}
----------------------------------------------------------------------------
(* load_config: sscanf(line, "%s = %s"), and what a pair does.             *)
IsPair(line) == ~Skipped(line) /\ Len(line.words) >= 3 /\ line.words[2] = "="
SetsMode(line) ==
  IsPair(line) /\ line.words[1] = "mode" /\ line.words[3] \in DOMAIN ModeNames
SetsPath(line) == IsPair(line) /\ line.words[1] = "pod_node_config"

(* Mutated form: a mode that is not known sets the default again.          *)
ApplyLineResets(config, line) ==
  IF SetsMode(line) THEN [config EXCEPT !.mode = ModeNames[line.words[3]]]
  ELSE IF SetsPath(line) THEN [config EXCEPT !.path = line.words[3]]
  ELSE IF IsPair(line) /\ line.words[1] = "mode" THEN [config EXCEPT !.mode = "TLSHUB"]
  ELSE config

ApplyLine(config, line) ==
  IF SetsMode(line) THEN [config EXCEPT !.mode = ModeNames[line.words[3]]]
  ELSE IF SetsPath(line) THEN [config EXCEPT !.path = line.words[3]]
  ELSE config

load_config(file) ==
  FoldLeft(ApplyLine, [mode |-> "TLSHUB", path |-> DefaultPath],
           IF file = NoFile THEN <<>> ELSE file)
----------------------------------------------------------------------------
(* init_pod_node_mapping: sscanf(line, "%s %s"), as long as there is room. *)
(* "pod=node" is one word and no entry.                                    *)
IsMapping(line) == ~Skipped(line) /\ Len(line.words) >= 2

AddMapping(table, line) ==
  IF IsMapping(line) /\ Len(table) < MaxMappings
    THEN Append(table, [pod_name |-> line.words[1], node_name |-> line.words[2]])
    ELSE table

init_pod_node_mapping(file) ==
  IF file = NoFile THEN NoTable ELSE FoldLeft(AddMapping, <<>>, file)

(* get_node_by_pod: the first entry that matches.                          *)
get_node_by_pod(table, pod_name) ==
  LET found == IF table = NoTable THEN {}
               ELSE {i \in DOMAIN table : table[i].pod_name = pod_name}
  IN  IF found = {} THEN NoNode ELSE table[Min(found)].node_name
----------------------------------------------------------------------------
(* What the files say, read as a whole: the last line that sets something   *)
(* counts in the configuration, the first one that names a pod in the       *)
(* table, if it is among the first MaxMappings entries.                     *)
LastLine(file, Sets(_)) == Max({0} \cup {i \in DOMAIN file : Sets(file[i])})

ConfigSays(file, config) ==
  LET lines == IF file = NoFile THEN <<>> ELSE file
      m == LastLine(lines, SetsMode)
      p == LastLine(lines, SetsPath)
  IN  /\ config.mode = IF m = 0 THEN "TLSHUB" ELSE ModeNames[lines[m].words[3]]
      /\ config.path = IF p = 0 THEN DefaultPath ELSE lines[p].words[3]

MappingSays(file, pod_name, node_name) ==
  LET entries == IF file = NoFile THEN {} ELSE {i \in DOMAIN file : IsMapping(file[i])}
      kept == {i \in entries : Cardinality({j \in entries : j < i}) < MaxMappings}
      naming == {i \in kept : file[i].words[1] = pod_name}
  IN  IF naming = {} THEN node_name = NoNode
      ELSE \E i \in naming : file[i].words[2] = node_name /\ \A j \in naming : i <= j
============================================================================
