----------------------- MODULE KernelReaderImplements -----------------------
(***************************************************************************)
(* The reader implements AccessGrant: the grant is the member process_, a  *)
(* process is in the kernel until its object is freed, and every kernel    *)
(* call on the way to the grant is a step that asks or a stutter.          *)
(***************************************************************************)
EXTENDS KernelReader

program == [o \in Objects |-> IF life[o] = "unused" THEN "absent" ELSE image[o]]

Abstract == INSTANCE AccessGrant WITH
  Trusted <- {"legacy"}, Needed <- RequestedAccess,
  asked <- kind, rights <- granted, grant <- bound, touching <- attached

\* Requests are granted whole processes, atomically, and only checked ones.
ImplementsAccessGrant == Abstract!Spec
=============================================================================
