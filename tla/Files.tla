------------------------------- MODULE Files -------------------------------
(****************************************************************************)
(* Files on their way: an image is created from a directory or pulled from  *)
(* a repository, copied out of an archive or a directory, and published     *)
(* over HTTP in one name space with the assets.  Each is the work of a      *)
(* command of its own, so one of them is busy and the others have nothing   *)
(* to do.                                                                   *)
(****************************************************************************)
EXTENDS NamespaceFS, TarCopy, ImagePull, ImageCreate

VARIABLE busy   \* the part that is at work

filesVars == <<nsVars, copyVars, pullVars, createVars, busy>>

Init ==
    /\ busy \in {"publish", "copy", "pull", "create"}
    /\ NamespaceInit
    /\ busy = "publish" \/ \A f \in DOMAIN contents : contents[f] = {}
    /\ CopyInit
    /\ busy = "copy" \/ (source = "tar" /\ archive = <<>>)
    /\ PullInit
    /\ busy = "pull" \/ (latest = 1 /\ \A p \in Pullers : wants[p] = NoTag /\ copies[p] = NoCopy)
    /\ CreateInit
    /\ busy = "create" \/ \A f \in SourceFiles : directory[f] = Absent

PublishStep == busy = "publish" /\ NamespaceNext /\ UNCHANGED <<copyVars, pullVars, createVars, busy>>
CopyStep == busy = "copy" /\ CopyNext /\ UNCHANGED <<nsVars, pullVars, createVars, busy>>
PullsStep == busy = "pull" /\ PullNext /\ UNCHANGED <<nsVars, copyVars, createVars, busy>>
CreateStep == busy = "create" /\ CreateNext /\ UNCHANGED <<nsVars, copyVars, pullVars, busy>>

Next == PublishStep \/ CopyStep \/ PullsStep \/ CreateStep

Spec == Init /\ [][Next]_filesVars

----------------------------------------------------------------------------
\* Every part stays in its types: no reader is beyond what it reads, no file is
\* made where there is no directory, no pull writes into "local", and nothing of
\* an image is open or left to do when it is finished.
TypeOK == NamespaceTypes /\ CopyTypes /\ PullTypes /\ CreateTypes
=============================================================================
