--------------------------- MODULE MCSourceAssign ---------------------------
(* Instances of SourceAssign for TLC. *)
EXTENDS SourceAssign

\* Ann as Active Directory knows her, Ann as Robin knows her (by an alias), Bob.
Ann      == [userid |-> "ann", mail |-> "ann@x", aliases |-> {"a@x"}]
AnnRobin == [userid |-> "", mail |-> "a@x", aliases |-> {}]
Bob      == [userid |-> "bob", mail |-> "bob@x", aliases |-> {}]

People == {Ann, AnnRobin, Bob}

UpToOne(S) == {<<>>} \cup {<<s>> : s \in S}
UpToTwo(S) == UpToOne(S) \cup {<<s, t>> : s, t \in S}
UpToOneRow == [Refs -> UpToOne(Placement)]
\* Three rows of one source and one of another at the same desk.
AtA1  == {p \in Placement : p.office = "a1"}
Crowd == {[r \in Refs |-> CASE r = "ldap" -> s [] r = "robin" -> t [] OTHER -> <<>>] :
              s \in [1..3 -> AtA1], t \in [1..1 -> AtA1]}
SmallMirrors == UpToOneRow \cup Crowd

Ldap(a, k)  == [ref |-> "ldap", type |-> "ldap", disabled |-> FALSE, assign |-> a, keepDuplicates |-> k]
Entra(a, k) == [ref |-> "entra", type |-> "entra", disabled |-> FALSE, assign |-> a, keepDuplicates |-> k]
Robin(d, k) == [ref |-> "robin", type |-> "robin", disabled |-> d, assign |-> TRUE, keepDuplicates |-> k]

\* Robin first or last, and in the first case possibly switched off.
ThreeSources ==
    {<<Ldap(TRUE, FALSE), Entra(a, k), Robin(FALSE, l)>> : a, k, l \in BOOLEAN}
    \cup {<<Robin(d, FALSE), Ldap(TRUE, k), Entra(TRUE, l)>> : d, k, l \in BOOLEAN}

\* Numbers are interchangeable, so the first desk is one where crowds are.
TrimmedDesks  == {d \in UpToTwo({k \in Desk : ~k.padded}) :
                     d # <<>> => d[1].number = "a1"}
=============================================================================
