-------------------------------- MODULE Tape --------------------------------
(***************************************************************************)
(* market_events as the periodic jobs of the worker find it: trade prints  *)
(* of one asset, with the time stamp of the venue, which EventWriter       *)
(* writes some time after that and Retention deletes in the end.           *)
(***************************************************************************)
EXTENDS EventWriter, Integers

CONSTANTS
    Prices,         \* the prices of prints
    Lag,            \* how old a print may be when it arrives
    MaxTime         \* bound: the clock

ASSUME TapeAssumption == Prices \subseteq Int /\ Lag \in Nat /\ MaxTime \in Nat

VARIABLES
    now,            \* the clock
    prints,         \* of the events submitted: [ts, price]
    swept,          \* the events Retention has deleted
    writtenAt       \* history: when an event of the table was written

tapeVars == <<now, prints, swept, writtenAt>>

Times == 0 .. MaxTime
TradePrint == [ts : Times, price : Prices]

TapeInit == now = 0 /\ prints = <<>> /\ swept = {} /\ writtenAt = [e \in {} |-> 0]

Written == DOMAIN writtenAt
OnTape == Written \ swept

\* A print arrives and is submitted to the writer.
Arrive ==
    /\ Submit
    /\ \E p \in TradePrint :
          now - Lag <= p.ts /\ p.ts <= now /\ prints' = Append(prints, p)
    /\ UNCHANGED <<now, swept, writtenAt>>

\* The table may have grown.
Committed ==
    /\ writtenAt' = [e \in ToSet(table') |-> IF e \in Written THEN writtenAt[e] ELSE now]
    /\ UNCHANGED <<now, prints, swept>>

\* Every other step of the writer; it may have written a batch.
Write ==
    /\ Flush \/ Flushed \/ Stop \/ FinalFlush \/ Stopped
    /\ Committed

Tick ==
    /\ now < MaxTime
    /\ now' = now + 1
    /\ UNCHANGED <<writerVars, prints, swept, writtenAt>>

TapeTypeOK ==
    /\ WriterTypeOK
    /\ now \in Times
    /\ prints \in Seq(TradePrint) /\ Len(prints) = submitted
    /\ Written = ToSet(table) /\ \A e \in Written : writtenAt[e] \in prints[e].ts .. now
    /\ swept \subseteq Written
=============================================================================
