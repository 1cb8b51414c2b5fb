----------------------------- MODULE FlashLayout -----------------------------
(***************************************************************************)
(* Which installed firmware a program accepts: the two tests of            *)
(* src/core/flash_layout/version.c against the version in the manifest,    *)
(* and the order they are to follow (FlashProofs).                         *)
(***************************************************************************)
EXTENDS Integers

\* nile_flash_version_t; the magic value in front of it is never looked at.
Version == [ major : Nat, minor : Nat, patch : Nat, partial_install : Nat ]

\* Where reading the manifest fails (ok is FALSE), or it was left half-written,
\* there is no version.
Unusable(ok, version) == ~ok \/ version.partial_install # 0

nile_flash_layout_version_at_least(ok, version, major, minor, patch) ==
    IF Unusable(ok, version)        THEN FALSE
    ELSE IF version.major > major   THEN TRUE
    ELSE IF version.major < major   THEN FALSE
    ELSE IF version.minor > minor   THEN TRUE
    ELSE IF version.minor < minor   THEN FALSE
    ELSE version.patch >= patch

\* first is first_incompatible_major.
nile_flash_layout_version_compatible(ok, version, major, minor, patch, first) ==
    IF Unusable(ok, version)        THEN FALSE
    ELSE IF version.major > major   THEN version.major < first
    ELSE IF version.major < major   THEN FALSE
    ELSE IF version.minor > minor   THEN TRUE
    ELSE IF version.minor < minor   THEN FALSE
    ELSE version.patch >= patch

----------------------------------------------------------------------------
(***************************************************************************)
(* The order of versions: they differ in some part first, and there the    *)
(* older one is smaller.                                                   *)
(***************************************************************************)
Older(v, w) ==
    \E i \in 1 .. 3 : v[i] < w[i] /\ \A j \in 1 .. i - 1 : v[j] = w[j]

Parts(version) == << version.major, version.minor, version.patch >>

=============================================================================
