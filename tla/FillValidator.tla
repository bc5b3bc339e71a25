---------------------------- MODULE FillValidator ---------------------------
(***************************************************************************)
(* src/src/execution/validation.py: two passes over paper_fills that judge *)
(* a fill by the prints around it and after it.  A row of a pass is read,  *)
(* judged and updated on its own; each pass takes at most 500 rows in no   *)
(* order, so which row is next, of which pass, is open.                    *)
(***************************************************************************)
EXTENDS Tape

CONSTANTS
    FillPrice,      \* the price of the fills
    Orders,         \* the fills there are: [side, kind, flag]
    Slack,          \* 0.005: how far outside the prints a price may be
    Threshold,      \* PICKED_OFF_THRESHOLD
    Around,         \* 30 s: prints before and after a fill
    Ahead,          \* ADVERSE_LOOKAHEAD_SECS
    Grace,          \* the further 30 s the adverse pass waits
    Tentative,      \* TENTATIVE_WINDOW_SECS
    MaxFills        \* bound: fills

ASSUME ValidatorAssumption ==
    /\ FillPrice \in Int
    /\ Orders \subseteq [side : {"buy", "sell"}, kind : {"taker", "maker", "missed"},
                       flag : {"clean", "thin_market", "would_have_moved_market"}]
    /\ Slack \in Nat /\ Threshold \in Nat
    /\ Around \in Nat /\ Ahead \in Nat /\ Grace \in Nat /\ Tentative \in Nat /\ MaxFills \in Nat

VARIABLE fills      \* paper_fills, as far as the passes read and write it

Flags == {"clean", "thin_market", "would_have_moved_market", "implausible", "picked_off"}
Fill == [ts : Times, side : {"buy", "sell"}, kind : {"taker", "maker", "missed"}, flag : Flags,
         validated : BOOLEAN, checked : BOOLEAN]

ValidatorInit == fills = <<>>

\* The simulator fills an order, with the flag its pre-flight check gave it, or
\* gives it up: a missed fill is clean.
NewFill ==
    /\ Len(fills) < MaxFills
    /\ \E o \in Orders :
          fills' = Append(fills, [ts |-> now, side |-> o.side, kind |-> o.kind, flag |-> o.flag,
                                  validated |-> FALSE, checked |-> FALSE])

-----------------------------------------------------------------------------
Near(f, e) == f.ts - Around <= prints[e].ts /\ prints[e].ts <= f.ts + Around
After(f, e) == f.ts < prints[e].ts /\ prints[e].ts <= f.ts + Ahead

\* Below every print, or above every print, there was.
Implausible(f, es) ==
    LET near == {e \in es : Near(f, e)} IN
    /\ near # {}
    /\ \/ \A e \in near : FillPrice < prints[e].price - Slack
       \/ \A e \in near : FillPrice > prints[e].price + Slack

Adverse(f, es) ==
    \E e \in {e \in es : After(f, e)} :
        IF f.side = "buy" THEN FillPrice - prints[e].price >= Threshold
                          ELSE prints[e].price - FillPrice >= Threshold

\* Mistakes: fills are judged at once; the flag is not looked at.
IsTentative_Early(f) == f.flag = "clean" /\ ~f.validated
IsTentative(f) == f.ts <= now - Tentative /\ f.flag = "clean" /\ ~f.validated

IsUnchecked_AnyFlag(f) == f.kind = "maker" /\ f.ts <= now - (Ahead + Grace) /\ ~f.checked
IsUnchecked(f) ==
    /\ f.kind = "maker" /\ f.ts <= now - (Ahead + Grace)
    /\ f.flag \in {"clean", "thin_market"} /\ ~f.checked

\* _validate_tentative_fills, a row.
Validate(i) ==
    /\ i \in DOMAIN fills /\ IsTentative(fills[i])
    /\ fills' = [fills EXCEPT
           ![i].flag = IF Implausible(fills[i], OnTape) THEN "implausible" ELSE "clean",
           ![i].validated = TRUE]

\* _check_adverse_selection, a row.  The query does not ask for the flag, so a
\* fill that was not picked off becomes clean, a thin market's too.
CheckAdverse(i) ==
    /\ i \in DOMAIN fills /\ IsUnchecked(fills[i])
    /\ fills' = [fills EXCEPT
           ![i].flag = IF Adverse(fills[i], OnTape) THEN "picked_off" ELSE "clean",
           ![i].checked = TRUE]

\* A pass is not begun after stop, and what it updates fails or does not.
ValidatorNext ==
    /\ stopping = "no"
    /\ \/ NewFill
       \/ \E i \in 1 .. MaxFills : Validate(i) \/ CheckAdverse(i)

-----------------------------------------------------------------------------
(* Properties *)

ValidatorTypeOK == fills \in Seq(Fill) /\ Len(fills) <= MaxFills

\* What has been found implausible or picked off stays that: no pass, in
\* whatever order rows and passes come, takes a verdict back.
FlagsAreFinal ==
    [][\A i \in DOMAIN fills :
          fills[i].flag \in {"implausible", "picked_off"} => fills'[i].flag = fills[i].flag]_fills

\* Written in time for the pass that runs `wait` after the fill, and not deleted.
Settled(f, es, wait) == \A e \in es : e \notin swept /\ writtenAt[e] < f.ts + wait

\* A verdict is what the prints say, those that were still in the buffer when
\* the fill was made included, unless one of them was written later than the
\* pass waits for: 5 minutes and 90 seconds (validation.py:32).
VerdictMatchesTheTape ==
    \A i \in DOMAIN fills : LET f == fills[i] IN
        /\ Settled(f, {e \in Written : Near(f, e)}, Tentative) =>
              (f.validated => (f.flag = "implausible" <=> Implausible(f, Written)) \/ f.flag = "picked_off")
        /\ Settled(f, {e \in Written : After(f, e)}, Ahead + Grace) =>
              (f.checked => (f.flag = "picked_off" <=> Adverse(f, Written)) \/ f.flag = "implausible")
=============================================================================
