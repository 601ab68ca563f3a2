------------------------------ MODULE NXCordCom ------------------------------
(***************************************************************************)
(* What NXCordComInterface promises its users, whichever client is behind  *)
(* it: every call takes effect at one moment between its beginning and its *)
(* end, or not at all and returns the zero value; a tick changes what      *)
(* Discord drives at one moment as well; and a restart, power loss         *)
(* included, keeps the settings of every call that has returned.           *)
(***************************************************************************)
EXTENDS NXCordCommands

CONSTANTS Callers,
          Offered,  \* bound: the commands each caller uses
          Ticked    \* bound: the aspects ticks change

VARIABLES
    com,   \* the client's aspects
    calls  \* of each caller: NoCall or its call

NoCall == [cmd |-> "none"]
Pending(p) == calls[p] # NoCall /\ ~calls[p].done

Init == /\ com = Loaded(NoLines)
        /\ calls = [p \in Callers |-> NoCall]

Arguments(c) == IF c \in DOMAIN SettingSet THEN Values ELSE {0}

Call(p) == /\ calls[p] = NoCall
           /\ \E c \in Offered[p] : \E arg \in Arguments(c) :
                  calls' = [calls EXCEPT ![p] = [cmd |-> c, arg |-> arg, done |-> FALSE, ret |-> <<>>]]
           /\ UNCHANGED com

Done(p, ret) == calls' = [calls EXCEPT ![p].done = TRUE, ![p].ret = ret]

Perform(p) == /\ Pending(p)
              /\ com' \in Outcomes(calls[p].cmd, calls[p].arg, com)
              /\ Done(p, Reply(calls[p].cmd, com'))

\* The request does not reach the client.
Refuse(p) == Pending(p) /\ Done(p, ZeroReply(calls[p].cmd)) /\ UNCHANGED com

Return(p) == /\ calls[p] # NoCall /\ calls[p].done
             /\ calls' = [calls EXCEPT ![p] = NoCall]
             /\ UNCHANGED com

Tick == /\ \E new \in [(Driven \cap Ticked) \ {"channels"} -> Values], list \in Lists \cup {Uncached} :
               com' = [With(com, new) EXCEPT !["channels"] = list]
        /\ UNCHANGED calls

\* What a restart in this state may find in the file: the settings, or a part
\* of what a call that saves was about to write.
Files == {Lines(com, Settings)} \cup
         UNION {{Lines(new, kept) : new \in Outcomes(calls[p].cmd, calls[p].arg, com),
                                    kept \in SUBSET Settings} :
                p \in {q \in Callers : Pending(q) /\ Saves(calls[q].cmd)}}

Restart == /\ \E file \in Files : com' = Loaded(file)
           /\ calls' = [p \in Callers |-> NoCall]

Next == \/ \E p \in Callers : Call(p) \/ Perform(p) \/ Refuse(p) \/ Return(p)
        \/ Tick \/ Restart

Spec == Init /\ [][Next]_<<com, calls>>
==============================================================================
