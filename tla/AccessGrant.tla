----------------------------- MODULE AccessGrant -----------------------------
(***************************************************************************)
(* What KernelProcessMemoryReader promises, with no handle, reference or   *)
(* process id in sight: a request is granted one process, in one step,     *)
(* touches only that process, and the process stays in the kernel until    *)
(* the grant is given back.                                                *)
(***************************************************************************)
CONSTANTS
  Requests, Objects, None,
  Trusted,      \* requests made by driver code itself are not checked
  Needed(_)     \* rights a kind of request needs

VARIABLES
  program,   \* [Objects -> name of the program, or "absent"]
  asked,     \* kind of each request
  rights,    \* rights found on the process a request asks for
  grant,     \* process granted to each request
  touching   \* process whose memory each request is touching

vars == <<program, asked, rights, grant, touching>>

Init ==
  /\ program = [o \in Objects |-> "absent"]
  /\ grant = [r \in Requests |-> None]
  /\ touching = [r \in Requests |-> None]

Appear(o) ==
  /\ program[o] = "absent"
  /\ \E name \in {"darkeden.exe", "other.exe"} :
       program' = [program EXCEPT ![o] = name]
  /\ UNCHANGED <<asked, rights, grant, touching>>

Vanish(o) ==
  /\ program[o] # "absent"
  /\ \A r \in Requests : grant[r] # o
  /\ program' = [program EXCEPT ![o] = "absent"]
  /\ UNCHANGED <<asked, rights, grant, touching>>

OthersUnchanged(r) ==
  \A q \in Requests \ {r} : asked'[q] = asked[q] /\ rights'[q] = rights[q]

\* What a request asks for can change only while it has been granted nothing.
Ask(r) ==
  /\ grant[r] = None
  /\ OthersUnchanged(r)
  /\ UNCHANGED <<program, grant, touching>>

Grant(r, o) ==
  /\ grant[r] = None
  /\ program[o] # "absent"
  /\ \/ asked[r] \in Trusted
     \/ program[o] = "darkeden.exe" /\ Needed(asked[r]) \subseteq rights[r]
  /\ grant' = [grant EXCEPT ![r] = o]
  /\ UNCHANGED <<program, asked, rights, touching>>

Touch(r) ==
  /\ grant[r] # None /\ touching[r] = None
  /\ touching' = [touching EXCEPT ![r] = grant[r]]
  /\ UNCHANGED <<program, asked, rights, grant>>

Leave(r) ==
  /\ touching[r] # None
  /\ touching' = [touching EXCEPT ![r] = None]
  /\ UNCHANGED <<program, asked, rights, grant>>

GiveBack(r) ==
  /\ touching[r] = None
  /\ grant' = [grant EXCEPT ![r] = None]
  /\ OthersUnchanged(r)
  /\ UNCHANGED <<program, touching>>

Next ==
  \/ \E o \in Objects : Appear(o) \/ Vanish(o)
  \/ \E r \in Requests :
       \/ Ask(r) \/ Touch(r) \/ Leave(r) \/ GiveBack(r)
       \/ \E o \in Objects : Grant(r, o)

Spec == Init /\ [][Next]_vars
=============================================================================
