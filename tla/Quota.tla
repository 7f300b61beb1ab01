-------------------------------- MODULE Quota --------------------------------
(***************************************************************************)
(* Plan-limit readings: internal/quota reads them out of log lines and       *)
(* usage answers, keeps the latest of each window and forecasts from it;     *)
(* internal/lines grades them, internal/menubar warns of the worst.          *)
(*                                                                          *)
(* A raw window is [used, minutes, at, after]: what is absent is NoValue,    *)
(* but for Codex's used, which is then 0.  Raw readings are functions from   *)
(* the windows (Claude) or slots (Codex) they hold.  Used is in percent, time *)
(* in minutes.                                                              *)
(***************************************************************************)
EXTENDS Integers, FiniteSets, Sequences, SequencesExt

CONSTANTS NoValue,
          Len5h, LenWeek,        \* nominal lengths of the windows
          LenDay,                \* a window at least this long is the weekly one
          Limit, WarnAt, CritAt  \* 100, 80 and 95 percent

ASSUME QuotaAssumption ==
    /\ NoValue \notin Int
    /\ Len5h \in Nat \ {0} /\ LenWeek \in Nat \ {0} /\ LenDay \in Nat \ {0}
    /\ Limit \in Nat \ {0} /\ WarnAt \in 0 .. Limit /\ CritAt \in WarnAt .. Limit

\* Raw readings, when what a window says of use is in Used.
RawReading(raw, Used) ==
    \A w \in DOMAIN raw :
        /\ raw[w].used \in Used /\ raw[w].minutes \in Int
        /\ raw[w].at \in Int \cup {NoValue} /\ raw[w].after \in Int \cup {NoValue}

IsCodexRaw(raw) == RawReading(raw, Int)
IsClaudeRaw(raw) == RawReading(raw, Int \cup {NoValue})

Windows == {"5h", "weekly", "weekly-opus", "weekly-sonnet"}

\* What Claude uses of a window is a percentage, what Codex says it uses a number.
Samples(provider) ==
    [ provider : {provider}, window : Windows,
      used     : IF provider = "claude" THEN 0 .. Limit ELSE Int,
      minutes  : Int, resets : Int, observed : Int ]

----------------------------------------------------------------------------
(* Parsing.                                                                 *)

Sample(provider, window, raw, resets, observed) ==
    [ provider |-> provider, window |-> window, used |-> raw.used,
      minutes |-> raw.minutes, resets |-> resets, observed |-> observed ]

\* Codex: the reset is absolute, or else counted from the reading; the length
\* of a window names it, its slot does not.
CodexResetsAt(raw, observed) ==
    IF raw.at # NoValue THEN raw.at
    ELSE IF raw.after # NoValue THEN observed + raw.after
    ELSE NoValue

CodexWindowKind(minutes) == IF minutes >= LenDay THEN "weekly" ELSE "5h"

\* A slot without a reset is no reading.
CodexSlot(slot, raw, observed) ==
    IF slot \in DOMAIN raw /\ CodexResetsAt(raw[slot], observed) # NoValue
    THEN << Sample("codex", CodexWindowKind(raw[slot].minutes), raw[slot],
                   CodexResetsAt(raw[slot], observed), observed) >>
    ELSE <<>>

CodexSamples(raw, observed) ==
    CodexSlot("primary", raw, observed) \o CodexSlot("secondary", raw, observed)

ParseCodex(line) == CodexSamples(line.limits, line.ts)

ParseCodexUsageAPI(raw, observed) == CodexSamples(raw, observed)

\* Claude: a percentage out of range is no reading, and neither is one without
\* an absolute reset.
ClaudeUsed(raw) ==
    IF raw.used # NoValue /\ raw.used >= 0 /\ raw.used <= Limit THEN raw.used ELSE NoValue

ClaudeWindow(window, raw, observed) ==
    IF /\ window \in DOMAIN raw
       /\ ClaudeUsed(raw[window]) # NoValue
       /\ raw[window].at # NoValue
    THEN << Sample("claude", window, raw[window], raw[window].at, observed) >>
    ELSE <<>>

ParseClaudeRateLimits(raw, observed) ==
    ClaudeWindow("5h", raw, observed) \o ClaudeWindow("weekly", raw, observed)
        \o ClaudeWindow("weekly-opus", raw, observed)

ParseClaudeUsageAPI(raw, observed) ==
    ParseClaudeRateLimits(raw, observed) \o ClaudeWindow("weekly-sonnet", raw, observed)

----------------------------------------------------------------------------
(* The tracker.                                                             *)

Key(s) == <<s.provider, s.window>>

\* Mutant: whatever comes last is kept.
KeptByOrder(samples, i) ==
    ~ \E j \in DOMAIN samples : Key(samples[j]) = Key(samples[i]) /\ j > i

\* What Observe keeps: the latest observation of a window, the last of equals.
Kept(samples, i) ==
    ~ \E j \in DOMAIN samples :
          /\ Key(samples[j]) = Key(samples[i])
          /\ \/ samples[j].observed > samples[i].observed
             \/ samples[j].observed = samples[i].observed /\ j > i

Tracker(samples) == {samples[i] : i \in {i \in DOMAIN samples : Kept(samples, i)}}

Active(latest, now) == {s \in latest : now <= s.resets}

----------------------------------------------------------------------------
(* Forecasts and grades.                                                    *)

WindowDuration(s) ==
    CASE s.minutes > 0                          -> s.minutes
      [] s.minutes <= 0 /\ s.window = "5h"      -> Len5h
      [] s.minutes <= 0 /\ s.window \in {"weekly", "weekly-opus"} -> LenWeek
      [] OTHER                                  -> 0

\* Mutant: the limit is met if it is met at any time.
ProjectWhenever(used, elapsed, window) ==
    [projected |-> used, breaches |-> used > 0, eta |-> 0]

\* Project to the reset at the rate so far: by when the limit is reached, and
\* whether that is before the reset.
Project(used, elapsed, window) ==
    LET cannot == elapsed <= 0 \/ window <= 0
        idle   == used <= 0
    IN IF used >= Limit THEN [projected |-> used, breaches |-> TRUE, eta |-> 0]
       ELSE IF cannot \/ idle
            THEN [projected |-> IF cannot THEN used ELSE (used * window) \div elapsed,
                  breaches |-> FALSE, eta |-> 0]
            ELSE LET breaches == (Limit - used) * elapsed <= used * (window - elapsed)
                 IN [ projected |-> (used * window) \div elapsed,
                      breaches  |-> breaches,
                      eta       |-> IF breaches
                                    THEN (2 * (Limit - used) * elapsed + used) \div (2 * used)
                                    ELSE 0 ]

Elapsed(s, now) == WindowDuration(s) - (s.resets - now)

SevOK == 0
SevWarn == 1
SevCrit == 2

Classify(used, breaches) ==
    IF used >= CritAt THEN SevCrit
    ELSE IF used >= WarnAt \/ breaches THEN SevWarn
    ELSE SevOK

\* A gauge: its window and reset, and what the bar says of it.
Gauge(s, now) ==
    LET p == Project(s.used, Elapsed(s, now), WindowDuration(s))
    IN [ provider |-> s.provider, window |-> s.window, used |-> s.used, resets |-> s.resets,
         observed |-> s.observed, projection |-> p, severity |-> Classify(s.used, p.breaches) ]

Worse(g, h) == g.severity > h.severity \/ (g.severity = h.severity /\ g.used > h.used)

==============================================================================
