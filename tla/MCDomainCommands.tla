-------------------------- MODULE MCDomainCommands --------------------------
(* Instances of DomainCommands for TLC: example.com, a host and a narrower *)
(* wildcard under it, a host of another domain.                            *)
EXTENDS DomainCommands

Symmetry == Permutations(RecordIds)

ExampleCom == <<"com", "example">>
AppHost == Host(<<"com", "example", "app">>)
AppWild == Wild(<<"com", "example", "app">>)
OtherHost == Host(<<"org", "other">>)

NestedHosts == {AppHost, AppWild, OtherHost}
EmptyHosts == {EmptyHost}
=============================================================================
