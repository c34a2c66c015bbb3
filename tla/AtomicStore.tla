---------------------------- MODULE AtomicStore ----------------------------
(***************************************************************************)
(* What flarefs promises its callers, seen through the power button: the   *)
(* files are what the next boot would find on the disk.  A call is a       *)
(* request, at most one instant at which its whole effect happens, and a   *)
(* reply.  "ok" is answered only after the effect, "fail" only without it, *)
(* and the power may go at any point, which loses the reply and nothing    *)
(* else.                                                                   *)
(***************************************************************************)
EXTENDS Sequences

CONSTANTS Name, Data, NoFile

VARIABLES files,   \* [Name -> {NoFile} \cup Data]
          req,     \* the call in progress, or NoCall
          applied, \* has its effect happened?
          reply    \* "none", "ok" or "fail"

svars == <<files, req, applied, reply>>

NoCall == [op |-> "none"]

Requests == [op : {"write", "append"}, name : Name, data : Data]
              \cup [op : {"remove"}, name : Name] \cup [op : {"clear"}]

\* The effect of a call, all of it.
Apply(f, r) ==
    CASE r.op = "write"  -> [f EXCEPT ![r.name] = r.data]
      [] r.op = "append" -> [f EXCEPT ![r.name] = IF @ = NoFile THEN r.data ELSE @ \o r.data]
      [] r.op = "remove" -> [f EXCEPT ![r.name] = NoFile]
      [] r.op = "clear"  -> [n \in Name |-> NoFile]

StoreInit ==
    /\ files \in [Name -> {NoFile} \cup Data]
    /\ req = NoCall
    /\ applied = FALSE
    /\ reply = "none"

Ask ==
    /\ req = NoCall
    /\ req' \in Requests
    /\ applied' = FALSE
    /\ reply' = "none"
    /\ UNCHANGED files

Effect ==
    /\ req # NoCall
    /\ ~applied
    /\ files' = Apply(files, req)
    /\ applied' = TRUE
    /\ UNCHANGED <<req, reply>>

Succeed ==
    /\ applied
    /\ req' = NoCall
    /\ applied' = FALSE
    /\ reply' = "ok"
    /\ UNCHANGED files

Refuse ==
    /\ ~applied
    /\ req' = NoCall
    /\ applied' = FALSE
    /\ reply' = "fail"
    /\ UNCHANGED files

LosePower ==
    /\ req' = NoCall
    /\ applied' = FALSE
    /\ reply' = "none"
    /\ UNCHANGED files

StoreNext ==
    \/ Ask
    \/ Effect
    \/ Succeed
    \/ Refuse
    \/ LosePower
=============================================================================
