---------------------------- MODULE CacheContract ----------------------------
(***************************************************************************)
(* What one bucket of either cache promises to its callers: a map from keys *)
(* to payloads of bounded size, in which every call takes effect at one     *)
(* moment between its start and its return.  The exception is an insert of  *)
(* a new key that evicts an entry: the old entry goes at one moment and the *)
(* new one comes at a later one.                                            *)
(***************************************************************************)
EXTENDS Integers, FiniteSets

CONSTANTS
  Threads, Keys, NoKey,
  Values,     \* what callers insert under a key
  NoValue,
  Payload(_), \* a value, or none, as the payload the bucket hands out
  Blanks,     \* payloads that LookupContext takes for no entry
  Capacity    \* slots of the bucket

VARIABLES
  entries,    \* the map
  call,       \* the call each thread is in, or NoCall
  took,       \* the entry that call has removed, if any
  missed,     \* the key it asks for was missing at some moment so far
  ret         \* what the last call returned, or has reported last

vars == <<entries, call, took, missed, ret>>

Queries == {"Lookup", "Contains", "Delete"}

(* KeepExisting may come with somewhere to put the existing payload. *)
Policies == {"Overwrite", "Keep", "KeepAndRead"}

Request(ops, ks, vals) == [op : ops, key : ks, val : vals, policy : Policies]

Calls ==
  Request({"Insert"}, Keys, Values) \cup Request(Queries, Keys, {NoValue})
    \cup Request({"Enumerate"}, {NoKey}, {NoValue})

NoCall == [op |-> "none", key |-> NoKey, val |-> NoValue, policy |-> "Keep"]

Empty == Payload(NoValue)
Result(res, k, v) == [res |-> res, key |-> k, ctx |-> v]
NoResult == Result("none", NoKey, Empty)
NotFound == Result("false", NoKey, Empty)

Entry(k, v) == [key |-> k, ctx |-> v]
Nothing == Entry(NoKey, Empty)

(* What a query finds of key k. *)
There(op, k) ==
  k \in DOMAIN entries /\ (op = "Lookup" => entries[k] \notin Blanks)

Init ==
  /\ entries = [k \in {} |-> Empty]
  /\ call = [t \in Threads |-> NoCall]
  /\ took = [t \in Threads |-> Nothing]
  /\ missed = [t \in Threads |-> FALSE]
  /\ ret = [t \in Threads |-> NoResult]
-----------------------------------------------------------------------------
Begin(t) ==
  /\ call'[t] \in Calls
  /\ call' = [call EXCEPT ![t] = call'[t]]
  /\ ret' = [ret EXCEPT ![t] = NoResult]
  /\ UNCHANGED <<entries, took>>

(* A call that names key 0 fails at once. *)
Reject(t) ==
  /\ UNCHANGED <<call, entries, took>>
  /\ \E r \in {Result("Failed", NoKey, Empty), NotFound} : ret' = [ret EXCEPT ![t] = r]

Without(k) == [q \in DOMAIN entries \ {k} |-> entries[q]]
With(k, v) == [q \in DOMAIN entries \cup {k} |-> IF q = k THEN v ELSE entries[q]]

(* An insert evicts at most one entry, and never that of its own key; a *)
(* delete removes the entry of its key.                                 *)
Take(t) ==
  /\ took[t] = Nothing
  /\ took'[t] # Nothing
  /\ \E k \in DOMAIN entries :
       /\ call[t].op = "Insert" <=> k # call[t].key
       /\ took' = [took EXCEPT ![t] = Entry(k, entries[k])]
       /\ entries' = Without(k)
  /\ UNCHANGED <<call, ret>>

Ends(t) == call' = [call EXCEPT ![t] = NoCall]

Return(t, r) ==
  /\ took' = [took EXCEPT ![t] = Nothing]
  /\ ret' = [ret EXCEPT ![t] = r]

Add(t) ==
  /\ call[t].key \notin DOMAIN entries
  /\ Cardinality(DOMAIN entries) < Capacity
  /\ entries' = With(call[t].key, Payload(call[t].val))
  /\ Return(t, Result("Inserted", took[t].key, took[t].ctx))

(* The caller hears of an existing entry what it was just before. *)
Update(t) ==
  /\ took[t] = Nothing
  /\ call[t].key \in DOMAIN entries
  /\ Return(t, IF call[t].policy = "Keep"
                 THEN Result("Updated", NoKey, Empty)
                 ELSE Result("Updated", call[t].key, entries[call[t].key]))
  /\ entries' = IF call[t].policy = "Overwrite"
                  THEN With(call[t].key, Payload(call[t].val)) ELSE entries

Deleted(t) ==
  /\ took[t] # Nothing
  /\ Return(t, Result("true", took[t].key, took[t].ctx))
  /\ UNCHANGED entries

Hit(t) ==
  /\ There(call[t].op, call[t].key)
  /\ Return(t, Result("true", call[t].key,
                 IF call[t].op = "Lookup" THEN entries[call[t].key] ELSE Empty))
  /\ UNCHANGED entries

Miss(t) ==
  /\ missed[t]
  /\ took[t] = Nothing
  /\ Return(t, NotFound)
  /\ UNCHANGED entries

(* An enumeration reports entries there at the moment, and ends some time. *)
Report(t) ==
  /\ UNCHANGED call \/ Ends(t)
  /\ \/ ret' = [ret EXCEPT ![t] = NoResult]
     \/ \E k \in DOMAIN entries :
          ret' = [ret EXCEPT ![t] = Result("reported", k, entries[k])]
  /\ UNCHANGED <<entries, took>>

Act(t) ==
  LET op == call[t].op
  IN  \/ op = "none" /\ (Begin(t) \/ Reject(t))
      \/ op \in {"Insert", "Delete"} /\ Take(t)
      \/ /\ op # "none" /\ Ends(t)
         /\ \/ op = "Insert" /\ (Add(t) \/ Update(t))
            \/ op = "Delete" /\ (Deleted(t) \/ Miss(t))
            \/ op \in {"Lookup", "Contains"} /\ (Hit(t) \/ Miss(t))
      \/ op = "Enumerate" /\ Report(t)

Observe ==
  missed' = [t \in Threads |->
    /\ call'[t].op \in Queries
    /\ missed[t] \/ ~There(call[t].op, call[t].key)']

Next == (\E t \in Threads : Act(t)) /\ Observe

Spec == Init /\ [][Next]_vars
=============================================================================
