------------------------------- MODULE MCParts -------------------------------
(***************************************************************************)
(* Instances for TLC of the parts that work by themselves: Artifact,       *)
(* LogReader and Protobuf.  A behaviour is one of one of them, beside the  *)
(* others in an initial state.                                             *)
(***************************************************************************)
EXTENDS Artifact, LogReader, Protobuf, TLC

ASSUME ReaderAssumption == Bytes /\ ReaderSizes

Varied == {0, 1, 15, 16, 255, 256, 1023}

FixedWidths == 1 :> 2 @@ 5 :> 1

SomeFields ==
  {[number |-> n, wireType |-> 0, value |-> v] : n \in {1, 2}, v \in Varied}
    \cup {[number |-> n, wireType |-> 2, value |-> v] :
            n \in {1, 2}, v \in {<<>>, <<17>>, <<8, 31>>}}
    \cup {[number |-> 1, wireType |-> 1, value |-> <<3, 20>>],
          [number |-> 2, wireType |-> 5, value |-> <<9>>]}

ASSUME CodecAssumption == CodecSizes

\* Of the files and of the messages, one stands for a part that is not used.
OneFile == file = <<>> /\ page = 1 /\ pageSize = 1
OneMessage == sent = <<>>

MCInit ==
  /\ Init
  /\ \/ OneMessage /\ ReaderInit /\ CodecInit
     \/ OneFile /\ CodecInit /\ ReaderInit

Unread == OneFile /\ reader = "closed"
Undecoded == OneMessage /\ decoder = "reading"

MCNext ==
  \/ Next /\ Unread /\ Undecoded /\ UNCHANGED <<readerVars, codecVars>>
  \/ ReaderNext /\ runs = 0 /\ Undecoded /\ UNCHANGED <<vars, codecVars>>
  \/ CodecNext /\ runs = 0 /\ Unread /\ UNCHANGED <<vars, readerVars>>

MCSpec == MCInit /\ [][MCNext]_<<vars, readerVars, codecVars>>

=============================================================================
