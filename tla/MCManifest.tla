----------------------------- MODULE MCManifest -----------------------------
(***************************************************************************)
(* An instance of Manifest for TLC: one session's worker, package files    *)
(* around the turns of a block and of a read, and metadata that is right,  *)
(* that is missing or ambiguous, or that is about a missing or another     *)
(* package.  Two edits, so that a reload can bring a new version and a new *)
(* package at once.                                                        *)
(***************************************************************************)
EXTENDS Manifest

CONSTANT w1

Bytes(n) == [i \in 1..n |-> i % 2]
Packages == { Bytes(DataLen), Bytes(ReadLen), Bytes(BlockLen + 1) }

Field(k, v)  == [key |-> k, value |-> v]
Meta(v, name) == << Field("LATEST_VERSION", v), Field("PACKAGE_FILE", name) >>
Confs ==
  { NoFile, Meta(1, "package"), Meta(2, "package"),
    Meta(2, "package") \o <<Field("CHECKSUM_SHA256", Bytes(DataLen))>>,
    Meta(2, "missing"),
    Meta(1, "package") \o <<Field("PACKAGE_FILE", "package")>> }

(* The blocks of every length up to four of them, fed in one call or in    *)
(* reads of ReadLen bytes, are those of the standard.                      *)
ASSUME BlocksAreStandard ==
  \A n \in 0..(4 * BlockLen) :
    LET first == IF n < ReadLen THEN n ELSE ReadLen
        ctx   == sha256_update(sha256_update(sha256_init, SubSeq(Bytes(n), 1, first)),
                               SubSeq(Bytes(n), first + 1, n))
    IN /\ sha256_final(ctx) = Digest(Bytes(n))
       /\ sha256_final(sha256_update(sha256_init, Bytes(n))) = Digest(Bytes(n))
=============================================================================
