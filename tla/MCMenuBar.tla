------------------------------ MODULE MCMenuBar ------------------------------
(***************************************************************************)
(* One ticker and one click, Claude and Codex, two instants: a fetch is due  *)
(* once for each, and some windows end between them.                        *)
(***************************************************************************)
EXTENDS MenuBar, TLC

Raw(used, minutes, at, after) ==
    [used |-> used, minutes |-> minutes, at |-> at, after |-> after]

MCOrder == <<"claude", "codex">>

\* A percentage that is none is among what Claude answers.
MCAnswers ==
    [ codex  |-> { "primary" :> Raw(40, 2, NoValue, 1) @@ "secondary" :> Raw(85, 6, NoValue, 4),
                   "primary" :> Raw(40, 2, NoValue, 0) },
      claude |-> { "5h" :> Raw(96, 0, 0, NoValue) @@ "weekly" :> Raw(50, 0, 5, NoValue)
                        @@ "weekly-opus" :> Raw(999, 0, 5, NoValue) } ]

Ends0 == "primary" :> Raw(20, 6, NoValue, 0)
Ends4 == "primary" :> Raw(30, 6, NoValue, 4)

\* A line without limits is one of a run that is not interactive.
MCLogLines == { Ends4, <<>> }

MCNever == -2

Empty == [mtime |-> Never, samples |-> <<>>]
Log(ts, limits) == [mtime |-> ts, samples |-> ParseCodex([ts |-> ts, limits |-> limits])]

\* Nothing yet, or an older rollout whose window lives and a newer one's that ends.
MCLogs == { <<Empty, Empty>>, <<Log(-1, Ends4), Log(0, Ends0)>> }

MCSnapshots == { "5h" :> Raw(99999, 0, 2, NoValue) @@ "weekly" :> Raw(30, 0, 4, NoValue) }

==============================================================================
