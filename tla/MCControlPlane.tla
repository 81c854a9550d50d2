--------------------------- MODULE MCControlPlane ---------------------------
(* A small instance of ControlPlane for TLC.                               *)
EXTENDS ControlPlane, TLC

CONSTANTS d1, d2, p1, p2, blog, shop

right(d) == [digest |-> d, size |-> "right"]
off(d)   == [digest |-> d, size |-> "off"]
Two      == <<right(d1), right(d2), right(d1)>>
One      == <<right(d1)>>

Token(exp, sites, caps) == Minted([exp |-> exp, sites |-> sites, caps |-> caps])
All       == <<"activate", "commit", "plan", "read", "upload">>
Long      == Token(9, <<blog>>, All)
Brief     == Token(2, <<blog, shop>>, All)
NoUpload  == Token(9, <<blog>>, <<"activate", "commit", "plan">>)
NoPointer == Token(9, <<blog>>, <<"commit", "plan", "upload">>)
Forged    == [Token(1, <<shop>>, All) EXCEPT !.mac = FALSE]
Respelt   == [Long EXCEPT !.form = "respelt"]
Garbled   == [Long EXCEPT !.form = "garbled"]

Request(headers) == [bearer |-> headers, peer |-> "127.0.0.1", forwarded |-> FALSE]
Job(cmd, files, token) ==
    [cmd |-> cmd, site |-> blog, files |-> files, release |-> p1,
     request |-> Request(<<token>>), origin |-> "https"]


Full      == Job("publish", Two, Long)
Hurried   == Job("publish", Two, Brief)
Again     == Job("publish", One, Long)
Activate  == Job("activate", One, Brief)

Deployment(mode, direct, evidence, enforcing) ==
    [mode |-> mode, direct |-> direct, evidence |-> evidence, enforcing |-> enforcing]
Unknown == Deployment("required", FALSE, "advisory", FALSE)
Direct  == Deployment("required", TRUE, "enforced", TRUE)
Rehash  == Deployment("required", TRUE, "advisory", TRUE)
Local   == Deployment("dev", FALSE, "advisory", FALSE)

Holding(a, b) == d1 :> a @@ d2 :> b
Empty == Holding("absent", "absent")
Rotten == Holding("wrong", "plain")

Scenario(e, a, b, s) == [env |-> e, job |-> p1 :> a @@ p2 :> b, store |-> s]

\* Two publishers of the same content, and one who activates the other's work.
Together ==
    { Scenario(Unknown, Full, Again, Rotten),
      Scenario(Direct, Full, Again, Empty), Scenario(Direct, Full, Again, Rotten),
      Scenario(Rehash, Again, Again, Holding("short", "absent")),
      Scenario(Direct, Job("publish", One, NoPointer), Again, Empty),
      Scenario(Local, Full, Activate, Holding("absent", "claimed")),
      Scenario(Unknown, Hurried, Again, Empty),
      Scenario(Direct, Hurried, Activate, Rotten) }

\* What a manifest or a token may be wrong about.
Leaders == { Job("publish", Two, NoUpload), Job("publish", Two, NoPointer),
            Job("stage", Two, NoPointer),
            Job("publish", <<off(d1), right(d2)>>, Long),
            Job("publish", <<off(d1), right(d1)>>, Long) }
Followers == { [Activate EXCEPT !.site = shop], [Again EXCEPT !.site = shop],
             Job("activate", One, NoPointer),
             Job("publish", One, Forged), Job("publish", One, Respelt),
             Job("publish", One, Garbled), [Again EXCEPT !.origin = "http"],
             Job("releases", One, Brief), Job("releases", One, NoPointer),
             [Again EXCEPT !.request = Request(<< >>)],
             [Again EXCEPT !.request = Request(<<Long, Long>>)] }
Afar == { [Activate EXCEPT !.request.forwarded = TRUE],
          [Again EXCEPT !.request.peer = "10.0.0.1"] }

Scenes == Together
    \cup {Scenario(e, a, Activate, s) : e \in {Unknown, Direct}, a \in Leaders,
                                        s \in {Empty, Rotten}}
    \cup {Scenario(Direct, Job("stage", One, NoPointer), b, Empty) : b \in Followers}
    \cup {Scenario(Local, Job("stage", One, NoPointer), b, Empty) : b \in Afar}
=============================================================================
