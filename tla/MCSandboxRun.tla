---- MODULE MCSandboxRun ----
EXTENDS SandboxRun

\* The tag may be moved between builds with another seed, a binary one, none.
MCBaked == [i \in Images |-> CASE i = "build"  -> "trigger"
                              [] i = "other"  -> "benign"
                              [] i = "binary" -> "blob"
                              [] i = "bare"   -> NoInput]

Good == [enabled |-> TRUE, signoff |-> [own |-> TRUE, granted |-> 0, expires |-> 1],
         runtime |-> "docker", digest |-> "build", repro |-> "trigger",
         entry |-> TRUE, seed |-> TRUE, renders |-> TRUE]

\* A request that is right, and each way it can be wrong.
MCRequests ==
    {Good,
     [Good EXCEPT !.enabled = FALSE],
     [Good EXCEPT !.signoff.own = FALSE],
     [Good EXCEPT !.signoff.granted = 1, !.signoff.expires = 2],
     [Good EXCEPT !.runtime = "other"],
     [Good EXCEPT !.digest = NoImage],
     [Good EXCEPT !.digest = "other"],
     [Good EXCEPT !.digest = "bare"],
     [Good EXCEPT !.digest = "binary", !.repro = Lossy],
     [Good EXCEPT !.repro = "benign"],
     [Good EXCEPT !.repro = NoInput],
     [Good EXCEPT !.entry = FALSE],
     [Good EXCEPT !.seed = FALSE]}
====
