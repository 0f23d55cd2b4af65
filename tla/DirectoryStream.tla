-------------------------- MODULE DirectoryStream --------------------------
(***************************************************************************)
(* What squash_opendir, squash_readdir and squash_closedir promise to      *)
(* their callers: an opened directory is a stream of its entries, each     *)
(* given once and in order; a failing read loses nothing; the end stays    *)
(* the end.  A directory is a record of its listing and whether the image  *)
(* stores it soundly: what a damaged one yields is left open.              *)
(***************************************************************************)
EXTENDS Naturals, Sequences

CONSTANTS Directories, \* the directories of an image
          Entry,       \* what an entry may be
          Nothing      \* the answer NULL

VARIABLES directory, \* the directory asked for
          open,      \* between squash_opendir and squash_closedir
          stream,    \* its entries, while open
          index,     \* of these, given so far
          answer     \* the last entry given

streamVars == <<directory, open, stream, index, answer>>

Fresh == ~open /\ stream = <<>> /\ index = 0 /\ answer = Nothing

Init == directory \in Directories /\ Fresh

Ask ==
    /\ ~open
    /\ directory' \in Directories
    /\ UNCHANGED <<open, stream, index, answer>>

Open ==
    /\ ~open
    /\ open'
    /\ stream' = directory.listing \/ (~directory.sound /\ stream' \in Seq(Entry))
    /\ UNCHANGED <<directory, index, answer>>

Read ==
    /\ open
    /\ index < Len(stream)
    /\ answer' = stream[index + 1]
    /\ index' = index + 1
    /\ UNCHANGED <<directory, open, stream>>

\* NULL at the end and when memory is short, or the caller frees its entry.
Keep ==
    /\ open
    /\ answer' = Nothing
    /\ UNCHANGED <<directory, open, stream, index>>

Close ==
    /\ open
    /\ Fresh'
    /\ UNCHANGED directory

Next == Ask \/ Open \/ Read \/ Keep \/ Close

Spec == Init /\ [][Next]_streamVars
=============================================================================
