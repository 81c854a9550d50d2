---------------------------- MODULE MCPeriphery ----------------------------
(***************************************************************************)
(* Four parts around the store that never meet in one process: artifactd's *)
(* start and its origins, the OCI layout, the S3 listing, the test registry*)
(* of the OCI harness.  One of them runs in each behaviour, the others stay*)
(* as they begin.                                                          *)
(***************************************************************************)
EXTENDS Origins, OciLayout, S3Listing, TlsRegistry, TLC

VARIABLE running

Parts == {"origins", "layout", "listing", "registry"}

vars == <<running, originVars, layoutVars, listingVars, registryVars>>

(***************************************************************************)
(* Instances                                                               *)
(***************************************************************************)
Pin(name, site) == [host |-> [name |-> name, clean |-> TRUE, port |-> "none"], site |-> site]

AConfig == [mode |-> "required", secret |-> TRUE, map |-> "json", base |-> <<"sites">>,
            hosts |-> <<Pin(<<"pin">>, "a")>>, scheme |-> "https", port |-> 443,
            controlHost |-> "one", contentHost |-> "one", controlPort |-> 8787,
            contentPort |-> 8788]

MCPins == {<< >>, <<Pin(<<"pin">>, "a")>>, <<Pin(<<"pin">>, "a"), Pin(<<"alt">>, "b")>>,
           <<Pin(<<"pin">>, "a"), Pin(<<"alt">>, "a")>>, <<Pin(<<"pin">>, "a"), Pin(<<"pin">>, "b")>>,
           <<Pin(<<"b", "sites">>, "a")>>, <<Pin(<<"sites">>, "a")>>,
           <<Pin(<<"pin">>, "No Site")>>, <<Pin(<<"not a label">>, "a")>>,
           <<[Pin(<<"pin">>, "a") EXCEPT !.host.port = "given"]>>}

MCConfigs ==
    {[AConfig EXCEPT !.base = b, !.hosts = h, !.port = p, !.scheme = s] :
        b \in {Nothing, <<"sites">>, <<"not a label">>}, h \in MCPins,
        p \in {0, 443, 8443}, s \in {"http", "https"}}
    \cup {[AConfig EXCEPT !.mode = m, !.secret = s, !.map = k] :
        m \in {"required", "dev", "other"}, s \in BOOLEAN, k \in {"json", "malformed"}}
    \cup {[AConfig EXCEPT !.map = "unset", !.hosts = << >>, !.base = b, !.controlPort = p] :
        b \in {Nothing, <<"sites">>}, p \in {0, 8787, 65536}}
    \cup {[AConfig EXCEPT !.mode = m, !.contentHost = "two", !.controlPort = p, !.contentPort = q] :
        m \in {"required", "dev"}, p \in {0, 8787}, q \in {0, 8787, 65536}}
    \cup {[AConfig EXCEPT !.scheme = "ftp"], [AConfig EXCEPT !.port = 65536]}

MCDnsLabel == {"a", "b", "sites", "pin", "alt", "localhost"}
MCHosts == {<< >>, <<"sites">>, <<"a", "sites">>, <<"b", "sites">>, <<"u_", "sites">>,
            <<"pin", "sites">>, <<"a", "b", "sites">>, <<"pin">>, <<"alt">>, <<"a", "localhost">>}

\* Two files with the same bytes in one manifest, a shared body, a wrong size.
File(path, digest, size, type) == [path |-> path, digest |-> digest, size |-> size,
                                   type |-> [essence |-> type, params |-> TRUE]]

MCFiles == [twins |-> <<File("/a", "x", 1, "html"), File("/b", "x", 1, "odd")>>,
            plain |-> <<File("/a", "x", 1, "html"), File("/c", "y", 2, "html")>>,
            wrong |-> <<File("/a", "y", 1, "html")>>]

MCLayer(path, digest, size, type) == [path |-> path, digest |-> digest, size |-> size, type |-> type]
Generic == "application/octet-stream"

MCImage(m, layers) == [artifact |-> TRUE, config |-> m, note |-> m, layers |-> layers]

MCContent ==
    [iTwins |-> MCImage("twins", <<MCLayer("/a", "x", 1, "html"), MCLayer("/b", "x", 1, Generic)>>),
     iPlain |-> MCImage("plain", <<MCLayer("/a", "x", 1, "html"), MCLayer("/c", "y", 2, "html")>>),
     iWrong |-> MCImage("wrong", <<MCLayer("/a", "y", 1, "html")>>),
     bare   |-> MCImage("plain", <<MCLayer(None, "y", 2, "html"), MCLayer(None, "x", 1, "html")>>),
     bareTwins |-> MCImage("twins", <<MCLayer(None, "x", 1, "html")>>),
     oneOfTwo |-> MCImage("twins", <<MCLayer("/a", "x", 1, "html"), MCLayer(None, "x", 1, Generic)>>),
     other  |-> MCImage("plain", <<MCLayer("/a", "x", 1, "html"), MCLayer("/d", "y", 2, "html")>>),
     twice  |-> MCImage("plain", <<MCLayer("/a", "x", 1, "html"), MCLayer("/a", "y", 2, "html")>>),
     odd    |-> MCImage("plain", <<MCLayer("/a", "x", 1, "html"), MCLayer("odd", "y", 2, "html")>>),
     size   |-> MCImage("wrong", <<MCLayer("/a", "y", 2, "html")>>),
     alien  |-> [MCImage("plain", << >>) EXCEPT !.artifact = FALSE],
     noted  |-> [MCImage("plain", << >>) EXCEPT !.note = "twins"],
     broken |-> [MCImage("plain", << >>) EXCEPT !.config = None]]

MCImageNames == DOMAIN MCContent
MCSizeOf == [x |-> 1, y |-> 2]

MCExports == {[manifest |-> "twins", ref |-> "latest"], [manifest |-> "plain", ref |-> "latest"],
              [manifest |-> "plain", ref |-> "v2"], [manifest |-> "wrong", ref |-> "latest"]}

Entry(ref, image) == [ref |-> ref, image |-> image, type |-> "manifest"]

MCFresh == [layout |-> Absent, index |-> Absent, disk |-> [d \in Blob |-> Absent]]

\* Every file in place, under an index of some sort.
MCWhole(entries) == [layout |-> "1.0.0", index |-> entries, disk |-> [d \in Blob |-> "whole"]]

MCFound ==
    {MCFresh, [MCWhole(<<Entry("latest", "iPlain")>>) EXCEPT !.layout = "other"],
     [MCWhole(<<Entry("latest", "iTwins")>>) EXCEPT !.disk["x"] = Torn],
     [MCWhole(<<Entry("latest", "iTwins")>>) EXCEPT !.disk["twins"] = Absent],
     MCWhole(<<Entry("latest", "iTwins"), Entry("latest", "iPlain")>>),
     MCWhole(<<Entry(None, "iTwins"), Entry("v2", "iPlain")>>),
     MCWhole(<<[Entry("latest", "iTwins") EXCEPT !.type = "index"]>>)}
    \cup {MCWhole(<<Entry("latest", i)>>) : i \in DOMAIN MCContent}

(***************************************************************************)
(* Specification                                                           *)
(***************************************************************************)
Init ==
    /\ running \in Parts
    /\ OriginsInit /\ (running # "origins" => config = AConfig)
    /\ LayoutInit /\ (running # "layout" => layout = Absent)
    /\ ListingInit /\ (running # "listing" => bucket = {})
    /\ RegistryInit

OriginsRuns(A) == running = "origins" /\ A
                    /\ UNCHANGED <<running, layoutVars, listingVars, registryVars>>

LayoutRuns == running = "layout" /\ LayoutNext
                /\ UNCHANGED <<running, originVars, listingVars, registryVars>>

ListingRuns == running = "listing" /\ ListingNext
                 /\ UNCHANGED <<running, originVars, layoutVars, registryVars>>

RegistryRuns(A) == running = "registry" /\ A
                     /\ UNCHANGED <<running, originVars, layoutVars, listingVars>>

Next == OriginsRuns(OriginsNext) \/ LayoutRuns \/ ListingRuns \/ RegistryRuns(RegistryNext)

\* Node runs what is due: handlers, timers, the events of what has ended; a
\* killed process dies, listen() reports.  Nothing makes a child answer, a tool
\* end by itself or a caller stop the registry.
Spec ==
    /\ Init /\ [][Next]_vars
    /\ WF_vars(OriginsRuns(OriginsSteps))
    /\ WF_vars(RegistryRuns(Tick)) /\ WF_vars(RegistryRuns(ReportExit))
    /\ WF_vars(RegistryRuns(SetUp)) /\ WF_vars(RegistryRuns(ToolCloses /\ tool = "killed"))
    /\ WF_vars(RegistryRuns(ToolTimesOut)) /\ WF_vars(RegistryRuns(Spawn))
    /\ WF_vars(RegistryRuns(Probe)) /\ WF_vars(RegistryRuns(ProbeTimesOut))
    /\ WF_vars(RegistryRuns(Judge)) /\ WF_vars(RegistryRuns(DelayEnds))
    /\ WF_vars(RegistryRuns(Kill)) /\ WF_vars(RegistryRuns(KilledDies))
    /\ WF_vars(RegistryRuns(ChildGone)) /\ WF_vars(RegistryRuns(RemoveState))

(***************************************************************************)
(* Properties                                                              *)
(***************************************************************************)
\* Every variable of the four parts stays in its type.
PeripheryTypeOK == /\ running \in Parts /\ OriginsTypeOK /\ LayoutTypeOK
                   /\ ListingTypeOK /\ RegistryTypeOK

\* A start of artifactd ends up, refused or aborted (server index.js:426-453); a
\* start of the registry ends ready or rejected whatever the child and the tools
\* do, answer, hang, ignore SIGTERM or die; and so does a stop that has begun
\* (tls-registry.js:371-384, 414-489).
Settles ==
    /\ [](running = "origins" => <>(phase \in {"up", "aborted", "refused", "down"}))
    /\ [](running = "registry" => <>(reg.pc \in {"ready", "stopped", "rejected"}))
=============================================================================
