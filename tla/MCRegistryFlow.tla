--------------------------- MODULE MCRegistryFlow ---------------------------
(* Instances of RegistryFlow for TLC. *)
EXTENDS RegistryFlow

Image(host, path, tag, digest) ==
    [host |-> host, path |-> path, tag |-> tag, digest |-> digest]

EcrHost == "1.dkr.ecr.eu.amazonaws.com"
ArtifactHost == "eu-docker.pkg.dev"
EcrHostNames == {EcrHost}
GcrHostNames == {"gcr.io", ArtifactHost}
DottedNames ==
    {"docker.io", "index.docker.io", "registry-1.docker.io", "ghcr.io",
     "gcr.io", EcrHost, ArtifactHost}

AllNames ==
    DottedNames \cup
        {"localhost", "5000", "443", "library", "redis", "user", "owner", "team", "project",
         "repo", "app", "v1", "v2", "latest", "sha256"}

(* Of every registry, with and without each of the optional parts; a dot and *)
(* a colon elsewhere than in the host; the references the parsers misread.   *)
AllImages ==
    {Image(<<>>, <<"redis">>, <<"v1">>, <<>>),
     Image(<<"index.docker.io">>, <<"user", "app">>, <<>>, <<"sha256">>),
     Image(<<"ghcr.io">>, <<"owner", "app">>, <<"v2">>, <<>>),
     Image(<<"ghcr.io">>, <<"owner", "app">>, <<"v2">>, <<"sha256">>),
     Image(<<EcrHost>>, <<"app">>, <<"v1">>, <<>>),
     Image(<<EcrHost, ":", "443">>, <<"team", "app">>, <<>>, <<>>),
     Image(<<ArtifactHost>>, <<"project", "repo", "app">>, <<>>, <<"sha256">>),
     Image(<<"localhost", ":", "5000">>, <<"app">>, <<>>, <<>>),
     Image(<<"localhost">>, <<"app">>, <<"v1">>, <<>>)}

AllRouters == {Providers, {"hub", "ghcr"}}

VersionTags == <<"v1", "v2">>

NoCriteria == [version |-> <<>>, regex |-> {}, digest |-> <<>>]
AllCriteria ==
    {NoCriteria,
     [NoCriteria EXCEPT !.regex = {"v1", "v2"}],
     [version |-> <<"v2">>, regex |-> {"v2"}, digest |-> <<"sha256">>]}

=============================================================================
