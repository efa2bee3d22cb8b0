----------------------------- MODULE References -----------------------------
(***************************************************************************)
(* How the registry providers and the router read an image reference         *)
(* (src/pkg/registry), next to how the Docker daemon reads it.                *)
(* A reference is the sequence of its names and of the separators "/", ":"   *)
(* and "@"; a digest is one name, its own colon never being looked at.        *)
(***************************************************************************)
EXTENDS Naturals, SequencesExt

CONSTANTS
    Names,       \* of hosts, of the parts of paths, and tags and digests
    Dotted,      \* those that contain a dot
    EcrHosts,    \* those that contain ".dkr.ecr."
    GcrHosts,    \* gcr.io and those that end in ".gcr.io" or ".pkg.dev"
    Account      \* the registry of the ECR client's account

Separators == {"/", ":", "@"}

ASSUME HostsAssumption ==
    /\ Names \cap Separators = {}
    /\ Dotted \cup {"localhost", "library", "latest"} \subseteq Names
    /\ {"localhost", "library"} \cap Dotted = {}
    /\ {"docker.io", "index.docker.io", "registry-1.docker.io", "ghcr.io",
        "gcr.io"} \subseteq Dotted
    /\ EcrHosts \cup GcrHosts \subseteq Dotted
    /\ Account \in EcrHosts
    /\ EcrHosts \cap GcrHosts = {}
    /\ {"docker.io", "index.docker.io", "registry-1.docker.io", "ghcr.io"}
           \cap (EcrHosts \cup GcrHosts) = {}

Providers == {"hub", "ghcr", "ecr", "gcr"}

Before(s, i) == SubSeq(s, 1, i - 1)
After(s, i) == SubSeq(s, i + 1, Len(s))
First(s, name) == SelectInSeq(s, LAMBDA x : x = name)
Final(s, name) == SelectLastInSeq(s, LAMBDA x : x = name)

-----------------------------------------------------------------------------
(* What a reference says, to the daemon that pulls it: [host, path, tag,     *)
(* digest], with <<>> for what is left out.                                  *)

Joined(path) ==
    [i \in 1 .. 2 * Len(path) - 1 |->
        IF i % 2 = 1 THEN path[(i + 1) \div 2] ELSE "/"]

(* A host is left out, a name with a dot, "localhost", or has a port, which   *)
(* is a number; the first name of a path without a host is not taken for one. *)
WellFormed(img) ==
    /\ img \in [host : Seq(Names \cup {":"}), path : Seq(Names) \ {<<>>},
               tag : Seq(Names), digest : Seq(Names)]
    /\ \/ img.host = <<>>
       \/ Len(img.host) = 1 /\ img.host[1] \in Dotted \cup {"localhost"}
       \/ Len(img.host) = 3 /\ img.host[2] = ":" /\ img.host[3] \notin Dotted
    /\ img.host = <<>> /\ Len(img.path) > 1 =>
           img.path[1] \notin Dotted \cup {"localhost"}
    /\ Len(img.tag) <= 1 /\ Len(img.digest) <= 1

Optional(separator, s) == IF s = <<>> THEN <<>> ELSE <<separator>> \o s

Text(img) ==
    (IF img.host = <<>> THEN <<>> ELSE img.host \o <<"/">>)
        \o Joined(img.path) \o Optional(":", img.tag)
        \o Optional("@", img.digest)

HubHosts ==
    {<<>>, <<"docker.io">>, <<"index.docker.io">>, <<"registry-1.docker.io">>}

HostOf(img) ==
    IF img.host \in HubHosts THEN <<"registry-1.docker.io">> ELSE img.host

PathOf(img) ==
    Joined(IF img.host \in HubHosts \ {<<"registry-1.docker.io">>}
                /\ Len(img.path) = 1
           THEN <<"library">> \o img.path ELSE img.path)

RefOf(img) ==
    CASE img.digest # <<>> -> img.digest
      [] img.digest = <<>> /\ img.tag # <<>> -> img.tag
      [] OTHER -> <<"latest">>

(* Hosts of ECR, of any account, with or without a port; of GCR, without one. *)
DkrEcr(host) == \E i \in DOMAIN host : host[i] \in EcrHosts
GcrHost(host) == \E h \in GcrHosts : host = <<h>>

(* The image is kept by a registry of p's kind. *)
Own(p, img) ==
    CASE p = "hub" -> img.host \in HubHosts
      [] p = "ghcr" -> img.host = <<"ghcr.io">>
      [] p = "ecr" -> DkrEcr(img.host)
      [] p = "gcr" -> GcrHost(img.host)

(* Known limits of the parsers: a host called "localhost" without a port is  *)
(* taken for the namespace of a Hub image, a tag before a digest stays in    *)
(* the path, "library" is added at registry-1.docker.io as well; ECR keeps    *)
(* the last name of a nested path only, reads a pinned reference as its tag,  *)
(* takes a port for a tag where there is none, and asks its own account for   *)
(* the images of others.                                                     *)
BareLocalhost(img) == img.host = <<"localhost">>
Misread(p, img) ==
    \/ BareLocalhost(img)
    \/ p # "ecr" /\ img.tag # <<>> /\ img.digest # <<>>
    \/ p = "hub" /\ img.host = <<"registry-1.docker.io">> /\ Len(img.path) = 1
    \/ p = "ecr" /\ \/ Len(img.path) > 1 \/ img.digest # <<>>
                    \/ img.host # <<Account>>

-----------------------------------------------------------------------------
(* What the code reads *)

Reading(host, path, ref) ==
    [verdict |-> "read", host |-> host, path |-> path, ref |-> ref]
Verdict(v) == [verdict |-> v, host |-> <<>>, path |-> <<>>, ref |-> <<>>]

HostLike(candidate) ==
    Contains(candidate, ":") \/ \E i \in DOMAIN candidate : candidate[i] \in Dotted

(* Hub, GHCR and GCR: a digest and a tag are one reference each, and the tag *)
(* before a digest stays in the path.                                        *)
SplitRef(host, rest) ==
    LET at == First(rest, "@")
        colon == Final(rest, ":")
    IN  CASE at # 0 -> Reading(host, Before(rest, at), After(rest, at))
          [] at = 0 /\ colon # 0 ->
                Reading(host, Before(rest, colon), After(rest, colon))
          [] OTHER -> Reading(host, rest, <<"latest">>)

(* Mutant: one of the names of Docker Hub would be missing. *)
HubPrefixesShort == {<<"docker.io">>, <<"registry-1.docker.io">>}

HubPrefixes == {<<"docker.io">>, <<"index.docker.io">>, <<"registry-1.docker.io">>}

(* Mutant: an image without a namespace would not be a library image. *)
DockerHubParseRefBare(text) ==
    LET candidate == Before(text, First(text, "/"))
    IN  CASE ~HostLike(candidate) -> SplitRef(<<"registry-1.docker.io">>, text)
          [] candidate \in HubPrefixes ->
                SplitRef(<<"registry-1.docker.io">>, After(text, First(text, "/")))
          [] OTHER -> Verdict("unsupported")

(* Includes what GetLatestDigest makes of the host. *)
DockerHubParseRef(text) ==
    LET slash == First(text, "/")
        candidate == Before(text, slash)
        rest == IF HostLike(candidate) THEN After(text, slash) ELSE text
        named == IF Contains(rest, "/") THEN rest ELSE <<"library", "/">> \o rest
    IN  IF HostLike(candidate) /\ candidate \notin HubPrefixes
        THEN Verdict("unsupported")
        ELSE SplitRef(<<"registry-1.docker.io">>, named)

GhcrParseRef(text) ==
    LET read == SplitRef(<<"ghcr.io">>, After(text, 2))
    IN  CASE ~IsPrefix(<<"ghcr.io", "/">>, text) -> Verdict("unsupported")
          [] IsPrefix(<<"ghcr.io", "/">>, text) /\ ~Contains(read.path, "/") ->
                Verdict("invalid")
          [] OTHER -> read

GcrParseFullRef(text) ==
    LET slash == First(text, "/")
    IN  IF slash = 0 THEN Verdict("invalid")
        ELSE SplitRef(Before(text, slash), After(text, slash))

(* The digest is dropped; only the last name of the path is kept. *)
EcrParseRef(text) ==
    LET at == First(text, "@")
        rest == IF at = 0 THEN text ELSE Before(text, at)
        colon == Final(rest, ":")
        repo == IF colon = 0 THEN rest ELSE Before(rest, colon)
    IN  Reading(<<Account>>, After(repo, Final(repo, "/")),
                IF colon = 0 THEN <<"latest">> ELSE After(rest, colon))

ParseRef(p, text) ==
    CASE p = "hub" -> DockerHubParseRef(text)
      [] p = "ghcr" -> GhcrParseRef(text)
      [] p = "gcr" -> GcrParseFullRef(text)
      [] p = "ecr" -> EcrParseRef(text)

RegistryHost(text) ==
    LET at == First(text, "@")
        rest == IF at = 0 THEN text ELSE Before(text, at)
        candidate == Before(rest, First(rest, "/"))
    IN  IF HostLike(candidate) THEN candidate ELSE <<>>

(* The provider that a router with the given ones hands an image of this     *)
(* host to: at most one.                                                      *)
Route(host, built) ==
    {p \in built :
        CASE p = "ghcr" -> host = <<"ghcr.io">>
          [] p = "hub" -> host \in HubPrefixes \cup {<<>>}
          [] p = "ecr" -> DkrEcr(host)
          [] p = "gcr" -> GcrHost(host)}

=============================================================================
