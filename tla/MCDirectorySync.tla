-------------------------- MODULE MCDirectorySync --------------------------
(* Instances of DirectorySync for TLC. *)
EXTENDS DirectorySync

\* The first source is enabled, and everyone has a seat in every directory they
\* are in; with a second source configured, or still to be created and then with
\* something to add.
KnownInit ==
    /\ Init
    /\ DOMAIN ldapSources \in {{1}, SourceIds} /\ ~ldapSources[1].disabled
    /\ DOMAIN ad[1] = Persons
    /\ \A i \in SourceIds : \A p \in DOMAIN ad[i] : ad[i][p].offices = Offices
    /\ DOMAIN ldapSources = {1} => \A i \in SourceIds : ad[i] # Empty

\* A fresh installation with every source configured.
FreshInit == KnownInit /\ DOMAIN ldapSources = SourceIds /\ ~published

\* Of a change in Active Directory, a restart, a sync by hand and an edit by an
\* administrator at most two happen.
TwoUpsets ==
    budget.hr + budget.crash + budget.manual + budget.admin
        >= MaxHR + MaxCrash + MaxManual + MaxAdmin - 2

KnownSpec     == KnownInit /\ [][Next]_vars
FreshFairSpec == FreshInit /\ [][Next]_vars /\ Fairness
=============================================================================
