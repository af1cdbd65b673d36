------------------------------ MODULE NlProofs ------------------------------
(***************************************************************************)
(* What holds of the NL to SQL agent for any number of threads, requests,  *)
(* flushes and failures.                                                   *)
(***************************************************************************)
EXTENDS NlToSql, TLAPS

Steps == {"idle", "check", "use", "lookup", "fetch", "store", "assign",
          "clear", "ask", "execute", "audit"}

Question == [number : Nat, error : BOOLEAN]
Audits   == [query : Nat, error : BOOLEAN]
Flush    == [step : {"idle", "write", "clear"}, frame : SUBSET Audits]

(* TypeOK, with the types of the frames and histories.                     *)
ProcessType ==
  /\ catalog \in Nat /\ catalog <= MaxVersion /\ floor \in 0..catalog
  /\ cache \in Contexts \ {Fallback} /\ agent \in Threads \cup {None}
  /\ context \in [Threads -> Contexts] /\ got \in [Threads -> Contexts]
  /\ using \in [Threads -> Threads \cup {None}] /\ since \in [Threads -> 0..catalog]
  /\ pc \in [Threads -> Steps] /\ task \in [Threads -> {"none", "query", "refresh"}]
  /\ passed \subseteq Threads /\ overtaken \in BOOLEAN

AuditType ==
  /\ query \in [Threads -> Question] /\ buffer \subseteq Audits /\ flush \in Flush
  /\ delta \subseteq [query : Nat, flush : Nat]
  /\ counts \in [requests : Nat, flushes : Nat, fails : Nat]
  /\ executed \subseteq Nat /\ adrift \subseteq Nat /\ raised \subseteq Nat

(* Where a thread is tells what it holds.                                  *)
Holding ==
  /\ agent # None => context[agent] # Unknown
  /\ \A t \in Threads :
       /\ pc[t] = "use" => agent # None
       /\ pc[t] \in {"ask", "execute", "clear"} => using[t] # None
       /\ pc[t] = "store" => got[t] \notin {Fallback, Unknown}
       /\ pc[t] = "assign" => got[t] # Unknown
       /\ using[t] # None => context[using[t]] # Unknown

TypeInv == ProcessType /\ AuditType /\ Holding

(* Errs, or not, leaves a question a question, with its number.            *)
LEMMA QuestionErrs ==
  ASSUME AuditType, NEW t \in Threads, query' = query \/ Errs(t)
  PROVE  /\ query' \in [Threads -> Question]
         /\ \A u \in Threads : query'[u].number = query[u].number
<1>1. CASE query' = query
  BY <1>1 DEF AuditType
<1>2. CASE Errs(t)
  <2>1. [query[t] EXCEPT !.error = TRUE] \in Question
    BY DEF AuditType, Question
  <2> QED
    BY <1>2, <2>1 DEF Errs, AuditType, Question
<1> QED
  BY <1>1, <1>2

LEMMA TypeInit == Init => TypeInv
<1> SUFFICES ASSUME Init PROVE TypeInv
  OBVIOUS
<1>1. ProcessType
  <2>1. catalog \in Nat /\ catalog <= MaxVersion /\ floor \in 0..catalog
    BY BoundAssumption DEF Init
  <2>2. Unknown \in Contexts \ {Fallback} /\ 0 \in 0..catalog
    BY DEF Init, Contexts, Unknown, Fallback
  <2> QED
    BY <2>1, <2>2 DEF Init, ProcessType, Steps
<1>2. AuditType
  BY DEF Init, AuditType, Question, Flush, NoQuestion, NoFlush
<1>3. Holding
  BY ThreadAssumption DEF Init, Holding, Unknown, Fallback
<1> QED
  BY <1>1, <1>2, <1>3 DEF TypeInv

LEMMA TypeStep == TypeInv /\ [Next]_vars => TypeInv'
<1> SUFFICES ASSUME TypeInv, [Next]_vars PROVE TypeInv'
  OBVIOUS
<1> USE ThreadAssumption, BoundAssumption
<1> USE DEF TypeInv, ProcessType, AuditType, Holding, Contexts, Fallback, Unknown,
            schema, thread, audit, fresh, traced, Go, Steps
<1>1. CASE ChangeCatalog
  BY <1>1 DEF ChangeCatalog
<1>2. ASSUME NEW t \in Threads, Arrive(t) PROVE TypeInv'
  BY <1>2 DEF Arrive, Question
<1>3. ASSUME NEW t \in Threads, Check(t) PROVE TypeInv'
  BY <1>3 DEF Check
<1>4. ASSUME NEW t \in Threads, Use(t) PROVE TypeInv'
  BY <1>4 DEF Use
<1>5. ASSUME NEW t \in Threads, Lookup(t) PROVE TypeInv'
  BY <1>5 DEF Lookup
<1>6. ASSUME NEW t \in Threads, Fetch(t) PROVE TypeInv'
  BY <1>6 DEF Fetch
<1>7. ASSUME NEW t \in Threads, Store(t) PROVE TypeInv'
  BY <1>7 DEF Store, Overtakes
<1>8. ASSUME NEW t \in Threads, Publish(t) PROVE TypeInv'
  BY <1>8 DEF Publish, Overtakes
<1>9. ASSUME NEW t \in Threads, NoClient(t) PROVE TypeInv'
  BY <1>9 DEF NoClient, Done, NoQuestion, Question
<1>10. ASSUME NEW t \in Threads, Clear(t) PROVE TypeInv'
  BY <1>10 DEF Clear
<1>11. ASSUME NEW t \in Threads, Refreshed(t) PROVE TypeInv'
  BY <1>11 DEF Refreshed, Overtakes, Done, NoQuestion, Question
<1>12. ASSUME NEW t \in Threads, Ask(t) PROVE TypeInv'
  <2>1. query' \in [Threads -> Question]
    BY <1>12, QuestionErrs DEF Ask
  <2> QED
    BY <1>12, <2>1 DEF Ask
<1>13. ASSUME NEW t \in Threads, Execute(t) PROVE TypeInv'
  <2>1. query' \in [Threads -> Question] /\ query[t].number \in Nat
    BY <1>13, QuestionErrs DEF Execute, Question
  <2> QED
    BY <1>13, <2>1 DEF Execute
<1>14. ASSUME NEW t \in Threads, Audit(t) PROVE TypeInv'
  <2>1. Entry(t) \in Audits /\ query[t].number \in Nat
    BY DEF Entry, Audits, Question
  <2>2. query' \in [Threads -> Question]
    BY <1>14 DEF Audit, Done, NoQuestion, Question
  <2>3. AuditType'
    BY <1>14, <2>1, <2>2 DEF Audit
  <2>4. ProcessType' /\ Holding'
    BY <1>14 DEF Audit, Done
  <2> QED
    BY <2>3, <2>4
<1>15. CASE FlushFrame
  BY <1>15 DEF FlushFrame, NoFlush, Flush
<1>16. CASE FlushWrite
  BY <1>16 DEF FlushWrite, Appended, Flush, Audits
<1>17. CASE FlushClear
  BY <1>17 DEF FlushClear, NoFlush, Flush
<1>18. CASE FlushRaises
  BY <1>18 DEF FlushRaises, Appended, NoFlush, Flush, Audits
<1>19. CASE Restart
  <2>1. AuditType'
    BY <1>19 DEF Restart, NoFlush, Flush, NoQuestion, Question
  <2>2. Unknown \in Contexts' \ {Fallback} /\ 0 \in 0..catalog'
    BY <1>19 DEF Restart
  <2>3. ProcessType' /\ Holding'
    BY <1>19, <2>2 DEF Restart
  <2> QED
    BY <2>1, <2>3
<1>20. CASE UNCHANGED vars
  BY <1>20 DEF vars
<1> QED
  BY <1>1, <1>2, <1>3, <1>4, <1>5, <1>6, <1>7, <1>8, <1>9, <1>10, <1>11, <1>12, <1>13,
     <1>14, <1>15, <1>16, <1>17, <1>18, <1>19, <1>20 DEF Next, Handle
(* Type correctness, for any number of threads, requests and failures.     *)
THEOREM TypeCorrect == Spec => []TypeOK
<1>1. TypeInv => TypeOK
  BY DEF TypeInv, ProcessType, AuditType, Holding, TypeOK, Flush
<1> QED
  BY TypeInit, TypeStep, <1>1, PTL DEF Spec

LEMMA TypeInvariant == Spec => []TypeInv
BY TypeInit, TypeStep, PTL DEF Spec

-----------------------------------------------------------------------------
(* What a running flush has written, or is about to write, is all that it  *)
(* may clear: entries added since are adrift.                              *)
FlushKnows ==
  /\ flush.step = "write" => \A e \in buffer : e \in flush.frame \/ e.query \in adrift
  /\ flush.step = "clear" =>
       \A e \in buffer : (\E d \in delta : d.query = e.query) \/ e.query \in adrift

AuditInv == FlushKnows /\ ExecutedIsAudited

LEMMA AuditStep == TypeInv /\ TypeInv' /\ AuditInv /\ [Next]_vars => AuditInv'
<1> SUFFICES ASSUME TypeInv, TypeInv', AuditInv, [Next]_vars PROVE AuditInv'
  OBVIOUS
<1> USE DEF AuditInv, FlushKnows, ExecutedIsAudited, Audited
<1>1. ASSUME UNCHANGED <<audit, executed, adrift>>,
             \A t \in Threads : pc[t] = "audit" =>
               pc'[t] = "audit" /\ query'[t].number = query[t].number
      PROVE  AuditInv'
  BY <1>1 DEF audit
<1>2. ASSUME NEW t \in Threads,
             Arrive(t) \/ Check(t) \/ Use(t) \/ Lookup(t) \/ Fetch(t) \/ Store(t) \/ Publish(t)
               \/ NoClient(t) \/ Clear(t) \/ Refreshed(t)
      PROVE  AuditInv'
  <2>1. UNCHANGED <<audit, executed, adrift>>
    BY <1>2 DEF Arrive, Check, Use, Lookup, Fetch, Store, Publish, NoClient, Clear, Refreshed,
                thread, audit, traced
  <2>2. pc[t] # "audit"
    BY <1>2 DEF Arrive, Check, Use, Lookup, Fetch, Store, Publish, NoClient, Clear, Refreshed
  <2>3. \A u \in Threads \ {t} : pc'[u] = pc[u] /\ query'[u] = query[u]
    BY <1>2 DEF Arrive, Check, Use, Lookup, Fetch, Store, Publish, NoClient, Clear, Refreshed,
                Go, Done, TypeInv, ProcessType, AuditType
  <2> QED
    BY <1>1, <2>1, <2>2, <2>3
<1>3. ASSUME NEW t \in Threads, Ask(t) PROVE AuditInv'
  <2>1. \A u \in Threads : query'[u].number = query[u].number
    BY <1>3, QuestionErrs DEF Ask, TypeInv
  <2>2. UNCHANGED <<audit, executed, adrift>> /\ pc[t] # "audit"
        /\ \A u \in Threads \ {t} : pc'[u] = pc[u]
    BY <1>3 DEF Ask, Go, audit, traced, TypeInv, ProcessType
  <2> QED
    BY <1>1, <2>1, <2>2
<1>4. ASSUME NEW t \in Threads, Execute(t) PROVE AuditInv'
  <2>1. \A u \in Threads : query'[u].number = query[u].number
    BY <1>4, QuestionErrs DEF Execute, TypeInv
  <2>2. pc'[t] = "audit" /\ \A u \in Threads \ {t} : pc'[u] = pc[u]
    BY <1>4 DEF Execute, Go, TypeInv, ProcessType
  <2>3. UNCHANGED <<audit, adrift>> /\ executed' = executed \cup {query[t].number}
    BY <1>4 DEF Execute
  <2> QED
    BY <2>1, <2>2, <2>3 DEF audit
<1>5. ASSUME NEW t \in Threads, Audit(t) PROVE AuditInv'
  <2>1. UNCHANGED <<flush, delta, executed>> /\ buffer' = buffer \cup {Entry(t)}
    BY <1>5 DEF Audit
  <2>2. adrift \subseteq adrift' /\ (flush.step # "idle" => query[t].number \in adrift')
    BY <1>5 DEF Audit
  <2>3. \A u \in Threads \ {t} : pc'[u] = pc[u] /\ query'[u] = query[u]
    BY <1>5 DEF Audit, Done, TypeInv, ProcessType, AuditType
  <2>4. Entry(t).query = query[t].number /\ Entry(t) \in buffer'
    BY <2>1 DEF Entry
  <2>5. FlushKnows'
    BY <2>1, <2>2, <2>4
  <2>6. ExecutedIsAudited'
    BY <2>1, <2>2, <2>3, <2>4
  <2> QED
    BY <2>5, <2>6
<1>6. CASE FlushFrame
  BY <1>6 DEF FlushFrame, NoFlush, thread, traced
<1>7. ASSUME delta' = Appended, FlushWrite \/ FlushRaises PROVE AuditInv'
  <2>1. \A e \in flush.frame : \E d \in delta' : d.query = e.query
    <3> TAKE e \in flush.frame
    <3>1. [query |-> e.query, flush |-> counts.flushes] \in delta'
      BY <1>7 DEF Appended
    <3> QED
      BY <3>1
  <2>2. delta \subseteq delta'
    BY <1>7 DEF Appended
  <2>3. flush.step = "write" /\ UNCHANGED <<thread, buffer, executed, adrift>>
        /\ flush'.step \in {"idle", "clear"}
    BY <1>7 DEF FlushWrite, FlushRaises, NoFlush, TypeInv, AuditType, Flush, traced
  <2> QED
    BY <2>1, <2>2, <2>3 DEF thread
<1>8. CASE FlushWrite
  BY <1>7, <1>8 DEF FlushWrite
<1>9. CASE FlushRaises
  <2>1. CASE delta' = delta
    BY <1>9, <2>1 DEF FlushRaises, NoFlush, thread
  <2> QED
    BY <1>7, <1>9, <2>1 DEF FlushRaises
<1>10. CASE FlushClear
  BY <1>10 DEF FlushClear, NoFlush, thread, traced
<1>11. CASE Restart
  BY <1>11 DEF Restart, NoFlush
<1>12. CASE ChangeCatalog
  BY <1>1, <1>12 DEF ChangeCatalog, thread, audit, traced
<1>13. CASE UNCHANGED vars
  BY <1>1, <1>13 DEF vars, thread, audit, traced
<1> QED
  BY <1>2, <1>3, <1>4, <1>5, <1>6, <1>8, <1>9, <1>10, <1>11, <1>12, <1>13 DEF Next, Handle

(* Every executed statement is audited, whatever the threads and flushes   *)
(* do, except where an entry was added to a buffer being flushed or went   *)
(* with the process.                                                       *)
THEOREM ExecutedAreAudited == Spec => []ExecutedIsAudited
<1>1. Init => AuditInv
  BY DEF Init, AuditInv, FlushKnows, ExecutedIsAudited, NoFlush
<1>2. AuditInv => ExecutedIsAudited
  BY DEF AuditInv
<1> QED
  BY TypeInvariant, AuditStep, <1>1, <1>2, PTL DEF Spec
-----------------------------------------------------------------------------
(* Questions in progress have numbers of their own, which no entry has yet.*)
Asking(t) == pc[t] # "idle"

Numbered ==
  /\ \A t \in Threads : query[t].number <= counts.requests
  /\ \A t, u \in Threads :
       Asking(t) /\ Asking(u) /\ query[t].number = query[u].number => t = u

Heard ==
  \A e \in buffer \cup delta :
    /\ e.query <= counts.requests
    /\ \A t \in Threads : Asking(t) => query[t].number # e.query

FrameHeard ==
  flush.step = "write" => \A e \in flush.frame :
    /\ e.query <= counts.requests
    /\ \A t \in Threads : Asking(t) => query[t].number # e.query

(* What is still to be written was written before only by a flush that     *)
(* raised.                                                                 *)
ToBeWritten ==
  CASE flush.step = "idle"  -> buffer
    [] flush.step = "write" -> buffer \cup flush.frame
    [] OTHER                -> {}

Pending ==
  /\ \A d \in delta : d.flush <= counts.flushes
  /\ \A e \in ToBeWritten, d \in delta : d.query = e.query => d.flush \in raised

OnceInv == Numbered /\ Heard /\ FrameHeard /\ Pending /\ AuditedOnce

LEMMA OnceStep == TypeInv /\ TypeInv' /\ OnceInv /\ [Next]_vars => OnceInv'
<1> SUFFICES ASSUME TypeInv, TypeInv', OnceInv, [Next]_vars PROVE OnceInv'
  OBVIOUS
<1> DEFINE Same == UNCHANGED <<buffer, flush, delta, raised, counts>>
<1>0. /\ counts.requests \in Nat /\ counts.flushes \in Nat
      /\ \A t \in Threads : query[t].number \in Nat
      /\ \A e \in buffer : e.query \in Nat
      /\ \A d \in delta : d.query \in Nat /\ d.flush \in Nat
      /\ \A e \in flush.frame : e.query \in Nat
      /\ flush.step \in {"idle", "write", "clear"}
  BY DEF TypeInv, AuditType, Question, Audits, Flush
\* Steps that leave the audit trail alone, and begin no question.
<1>1. ASSUME UNCHANGED <<audit, raised>>,
             counts'.requests = counts.requests, counts'.flushes = counts.flushes,
             \A t \in Threads : pc'[t] # "idle" =>
               pc[t] # "idle" /\ query'[t].number = query[t].number,
             \A t \in Threads : query'[t].number \in {0, query[t].number}
      PROVE  OnceInv'
  <2>1. Numbered'
    BY <1>0, <1>1 DEF OnceInv, Numbered, Asking
  <2>2. Heard'
    BY <1>1 DEF OnceInv, Heard, Asking, audit
  <2>3. FrameHeard'
    BY <1>1 DEF OnceInv, FrameHeard, Asking, audit
  <2>4. Pending' /\ AuditedOnce'
    BY <1>1 DEF OnceInv, Pending, ToBeWritten, AuditedOnce, audit
  <2> QED
    BY <2>1, <2>2, <2>3, <2>4 DEF OnceInv
<1>2. ASSUME NEW t \in Threads, Arrive(t) PROVE OnceInv'
  <2>1. /\ counts'.requests = counts.requests + 1 /\ counts'.flushes = counts.flushes
        /\ UNCHANGED <<buffer, flush, delta, raised>>
    BY <1>2 DEF Arrive, audit, traced, TypeInv, AuditType
  <2>2. /\ query'[t].number = counts.requests + 1
        /\ \A u \in Threads \ {t} : pc'[u] = pc[u] /\ query'[u] = query[u]
    BY <1>2 DEF Arrive, Go, TypeInv, ProcessType, AuditType
  <2>3. Numbered'
    BY <1>0, <2>1, <2>2 DEF OnceInv, Numbered, Asking
  <2>4. Heard'
    BY <1>0, <2>1, <2>2 DEF OnceInv, Heard, Asking
  <2>5. FrameHeard'
    BY <1>0, <2>1, <2>2 DEF OnceInv, FrameHeard, Asking
  <2>6. Pending' /\ AuditedOnce'
    BY <2>1 DEF OnceInv, Pending, ToBeWritten, AuditedOnce
  <2> QED
    BY <2>3, <2>4, <2>5, <2>6 DEF OnceInv
<1>3. ASSUME NEW t \in Threads,
             Check(t) \/ Use(t) \/ Lookup(t) \/ Fetch(t) \/ Store(t) \/ Publish(t)
               \/ NoClient(t) \/ Clear(t) \/ Refreshed(t)
      PROVE  OnceInv'
  <2>1. UNCHANGED <<audit, raised>>
    BY <1>3 DEF Check, Use, Lookup, Fetch, Store, Publish, NoClient, Clear, Refreshed, audit, traced
  <2>2. counts'.requests = counts.requests /\ counts'.flushes = counts.flushes
    BY <1>3 DEF Check, Use, Lookup, Fetch, Store, Publish, NoClient, Clear, Refreshed,
                TypeInv, AuditType
  <2>3. /\ pc[t] # "idle"
        /\ query'[t].number = query[t].number \/ (pc'[t] = "idle" /\ query'[t].number = 0)
        /\ \A u \in Threads \ {t} : pc'[u] = pc[u] /\ query'[u] = query[u]
    BY <1>3 DEF Check, Use, Lookup, Fetch, Store, Publish, NoClient, Clear, Refreshed,
                Go, Done, NoQuestion, TypeInv, ProcessType, AuditType, thread
  <2> QED
    BY <1>1, <2>1, <2>2, <2>3
<1>4. ASSUME NEW t \in Threads, Ask(t) \/ Execute(t) PROVE OnceInv'
  <2>1. \A u \in Threads : query'[u].number = query[u].number
    BY <1>4, QuestionErrs DEF Ask, Execute, TypeInv
  <2>2. UNCHANGED <<audit, raised, counts>> /\ pc[t] # "idle"
        /\ \A u \in Threads \ {t} : pc'[u] = pc[u]
    BY <1>4 DEF Ask, Execute, Go, audit, traced, TypeInv, ProcessType
  <2> QED
    BY <1>1, <2>1, <2>2
<1>5. ASSUME NEW t \in Threads, Audit(t) PROVE OnceInv'
  <2>1. UNCHANGED <<flush, delta, raised, counts>> /\ buffer' = buffer \cup {Entry(t)}
        /\ Entry(t).query = query[t].number /\ Asking(t)
    BY <1>5 DEF Audit, Entry, Asking
  <2>2. /\ pc'[t] = "idle" /\ query'[t].number = 0
        /\ \A u \in Threads \ {t} : pc'[u] = pc[u] /\ query'[u] = query[u]
    BY <1>5 DEF Audit, Done, NoQuestion, TypeInv, ProcessType, AuditType
  <2>3. Numbered'
    BY <1>0, <2>1, <2>2 DEF OnceInv, Numbered, Asking
  <2>4. Heard'
    BY <1>0, <2>1, <2>2 DEF OnceInv, Numbered, Heard, Asking
  <2>5. FrameHeard'
    BY <1>0, <2>1, <2>2 DEF OnceInv, FrameHeard, Asking
  <2>6. Pending'
    BY <2>1 DEF OnceInv, Heard, Pending, ToBeWritten
  <2>7. AuditedOnce'
    BY <2>1 DEF OnceInv, AuditedOnce
  <2> QED
    BY <2>3, <2>4, <2>5, <2>6, <2>7 DEF OnceInv
<1>6. CASE FlushFrame
  <2>1. /\ counts'.requests = counts.requests /\ counts'.flushes = counts.flushes + 1
        /\ flush.step = "idle" /\ UNCHANGED <<buffer, delta, raised, pc, query>>
        /\ flush'.step = "idle" \/ (flush'.step = "write" /\ flush'.frame = buffer)
    BY <1>6 DEF FlushFrame, NoFlush, thread, traced, TypeInv, AuditType
  <2>2. Numbered' /\ Heard' /\ FrameHeard'
    BY <2>1 DEF OnceInv, Numbered, Heard, FrameHeard, Asking
  <2>3. Pending' /\ AuditedOnce'
    BY <1>0, <2>1 DEF OnceInv, Pending, ToBeWritten, AuditedOnce
  <2> QED
    BY <2>2, <2>3 DEF OnceInv
\* The flush that writes is the newest one there is.
<1>7. ASSUME delta' = Appended, flush.step = "write", UNCHANGED <<pc, query, buffer>>,
             counts'.requests = counts.requests, counts'.flushes = counts.flushes,
             \/ flush'.step = "clear" /\ raised' = raised
             \/ flush'.step = "idle" /\ raised' = raised \cup {counts.flushes}
      PROVE  OnceInv'
  <2>1. \A d \in delta' : \/ d \in delta
                          \/ /\ d.flush = counts.flushes
                             /\ \E e \in flush.frame : d.query = e.query
    BY <1>7 DEF Appended
  <2>2. Numbered'
    BY <1>7 DEF OnceInv, Numbered, Asking
  <2>3. Heard' /\ FrameHeard'
    BY <1>7, <2>1 DEF OnceInv, Heard, FrameHeard, Asking
  <2>4. Pending'
    BY <1>0, <1>7, <2>1 DEF OnceInv, Pending, ToBeWritten
  <2>5. AuditedOnce'
    <3> SUFFICES ASSUME NEW c \in delta', NEW d \in delta', c.query = d.query, c.flush < d.flush
                 PROVE  c.flush \in raised
      BY <1>7 DEF AuditedOnce
    <3>1. c \in delta
      BY <1>0, <2>1 DEF OnceInv, Pending
    <3> QED
      BY <1>7, <2>1, <3>1 DEF OnceInv, Pending, ToBeWritten, AuditedOnce
  <2> QED
    BY <2>2, <2>3, <2>4, <2>5 DEF OnceInv
<1>8. CASE FlushWrite
  BY <1>7, <1>8 DEF FlushWrite, thread, traced, TypeInv, AuditType, Flush
<1>9. CASE FlushRaises
  <2>1. /\ counts'.requests = counts.requests /\ counts'.flushes = counts.flushes
        /\ flush.step = "write" /\ flush'.step = "idle" /\ UNCHANGED <<pc, query, buffer>>
        /\ raised' = raised \cup {counts.flushes} /\ delta' \in {delta, Appended}
    BY <1>9 DEF FlushRaises, NoFlush, thread, TypeInv, AuditType
  <2>2. CASE delta' = delta
    BY <2>1, <2>2 DEF OnceInv, Numbered, Heard, FrameHeard, Asking, Pending, ToBeWritten, AuditedOnce
  <2> QED
    BY <1>7, <2>1, <2>2
<1>10. CASE FlushClear
  <2>1. buffer' = {} /\ flush'.step = "idle" /\ UNCHANGED <<delta, raised, counts, pc, query>>
    BY <1>10 DEF FlushClear, NoFlush, thread, traced
  <2> QED
    BY <2>1 DEF OnceInv, Numbered, Heard, FrameHeard, Asking, Pending, ToBeWritten, AuditedOnce
<1>11. CASE Restart
  <2>1. /\ buffer' = {} /\ flush'.step = "idle" /\ UNCHANGED <<delta, raised>>
        /\ counts'.requests = counts.requests /\ counts'.flushes = counts.flushes
        /\ \A t \in Threads : pc'[t] = "idle" /\ query'[t].number = 0
    BY <1>11 DEF Restart, NoFlush, NoQuestion, TypeInv, AuditType
  <2>2. Numbered' /\ Heard' /\ FrameHeard'
    BY <1>0, <2>1 DEF OnceInv, Numbered, Heard, FrameHeard, Asking
  <2>3. Pending' /\ AuditedOnce'
    BY <2>1 DEF OnceInv, Pending, ToBeWritten, AuditedOnce
  <2> QED
    BY <2>2, <2>3 DEF OnceInv
<1>12. CASE ChangeCatalog
  BY <1>1, <1>12 DEF ChangeCatalog, thread, audit, traced
<1>13. CASE UNCHANGED vars
  BY <1>1, <1>13 DEF vars, thread, audit, traced
<1> QED
  BY <1>2, <1>3, <1>4, <1>5, <1>6, <1>8, <1>9, <1>10, <1>11, <1>12, <1>13 DEF Next, Handle

(* No entry is written twice, unless a flush raised after its commit.      *)
THEOREM AuditsAreOnce == Spec => []AuditedOnce
<1>1. Init => OnceInv
  BY DEF Init, OnceInv, Numbered, Heard, FrameHeard, Pending, ToBeWritten, AuditedOnce,
         Asking, NoQuestion, NoFlush
<1>2. OnceInv => AuditedOnce
  BY DEF OnceInv
<1> QED
  BY TypeInvariant, OnceStep, <1>1, <1>2, PTL DEF Spec
-----------------------------------------------------------------------------
(* A refresh in progress has cleared the cache.                            *)
Refreshing(t) == using[t] # None /\ pc[t] \in {"lookup", "fetch", "store", "assign"}

Building(t) == pc[t] \in {"store", "assign"}

(* Is context c at least as new as catalog version v, or the hardcoded one *)
AtLeast(c, v) == c = Fallback \/ c >= v

(* Whatever is cached, or built by a thread that no clear passed, is as    *)
(* new as v.                                                               *)
AllSince(v) ==
  /\ cache # Unknown => cache >= v
  /\ \A u \in Threads \ passed : Building(u) => AtLeast(got[u], v)

FreshInv ==
  /\ \A u \in passed : Building(u)
  /\ \A t \in Threads : pc[t] \in {"idle", "check", "use"} => using[t] = None
  /\ ~overtaken =>
       /\ AllSince(floor)
       /\ \A t \in Threads : Refreshing(t) => AllSince(since[t])
       /\ agent # None => AtLeast(context[agent], floor)

LEMMA FreshStep == TypeInv /\ TypeInv' /\ FreshInv /\ [Next]_vars => FreshInv'
<1> SUFFICES ASSUME TypeInv, TypeInv', FreshInv, [Next]_vars PROVE FreshInv'
  OBVIOUS
<1> USE ThreadAssumption
<1> USE DEF FreshInv, AllSince, AtLeast, Refreshing, Building, Fallback, Unknown
<1>0. /\ catalog \in Nat /\ floor \in 0..catalog
      /\ cache \in 0..catalog \cup {Unknown} /\ \A t \in Threads : since[t] \in 0..catalog
      /\ \A t \in Threads : got[t] \in 0..catalog \cup {Fallback, Unknown}
      /\ \A t \in Threads : context[t] \in 0..catalog \cup {Fallback, Unknown}
      /\ passed \subseteq Threads
  BY DEF TypeInv, ProcessType, Contexts
<1>1. ASSUME UNCHANGED <<schema, thread, fresh>> PROVE FreshInv'
  BY <1>1 DEF schema, thread, fresh
<1>2. CASE ChangeCatalog
  BY <1>1, <1>2 DEF ChangeCatalog
\* A step that begins and ends no refresh: five things are enough.
<1> DEFINE Keeps == \A v \in 0..catalog : ~overtaken' /\ AllSince(v) => AllSince(v)'
           Goes  == \A u \in Threads : Refreshing(u)' => Refreshing(u)
           Stays == \A u \in passed' : Building(u)'
           Takes == \A u \in Threads : pc'[u] \in {"idle", "check", "use"} => using'[u] = None
           Knows == ~overtaken' /\ agent' # None => AtLeast(context'[agent'], floor)
<1>A. ASSUME since' = since, floor' = floor, ~overtaken' => ~overtaken,
             Keeps, Goes, Stays, Takes, Knows
      PROVE  FreshInv'
  <2>1. ASSUME ~overtaken' PROVE AllSince(floor)'
    BY <1>0, <1>A, <2>1
  <2>2. ASSUME ~overtaken', NEW u \in Threads, Refreshing(u)' PROVE AllSince(since[u])'
    <3>1. AllSince(since[u]) /\ since[u] \in 0..catalog
      BY <1>0, <1>A, <2>2
    <3>2. \A v \in 0..catalog : AllSince(v) => AllSince(v)'
      BY <1>A, <2>2
    <3> QED
      BY <1>A, <3>1, <3>2
  <2> QED
    BY <1>A, <2>1, <2>2
<1>3. ASSUME NEW t \in Threads, Arrive(t) \/ Check(t) PROVE FreshInv'
  <2>1. UNCHANGED <<schema, using, got, fresh>>
    BY <1>3 DEF Arrive, Check
  <2>2. /\ pc[t] \in {"idle", "check"} /\ pc'[t] \in {"check", "use", "lookup"}
        /\ \A u \in Threads \ {t} : pc'[u] = pc[u]
    BY <1>3 DEF Arrive, Check, Go, TypeInv, ProcessType
  <2>11. Keeps
    BY <2>1, <2>2 DEF schema, fresh
  <2>12. Goes
    BY <2>1, <2>2 DEF schema, fresh
  <2>13. Stays
    BY <1>0, <2>1, <2>2 DEF schema, fresh
  <2>14. Takes
    BY <2>1, <2>2 DEF schema, fresh
  <2>15. Knows
    BY <2>1, <2>2 DEF schema, fresh
  <2> QED
    BY <1>A, <2>1, <2>11, <2>12, <2>13, <2>14, <2>15 DEF schema, fresh
<1>4. ASSUME NEW t \in Threads, Use(t) PROVE FreshInv'
  <2>1. UNCHANGED <<schema, got, fresh>> /\ \A u \in Threads \ {t} : using'[u] = using[u]
    BY <1>4 DEF Use, TypeInv, ProcessType
  <2>2. /\ pc[t] = "use" /\ pc'[t] \in {"ask", "clear"}
        /\ \A u \in Threads \ {t} : pc'[u] = pc[u]
    BY <1>4 DEF Use, Go, TypeInv, ProcessType
  <2>11. Keeps
    BY <2>1, <2>2 DEF schema, fresh
  <2>12. Goes
    BY <2>1, <2>2 DEF schema, fresh
  <2>13. Stays
    BY <1>0, <2>1, <2>2 DEF schema, fresh
  <2>14. Takes
    BY <2>1, <2>2 DEF schema, fresh
  <2>15. Knows
    BY <2>1, <2>2 DEF schema, fresh
  <2> QED
    BY <1>A, <2>1, <2>11, <2>12, <2>13, <2>14, <2>15 DEF schema, fresh
<1>5. ASSUME NEW t \in Threads, Ask(t) \/ Execute(t) PROVE FreshInv'
  <2>1. UNCHANGED <<schema, using, got, fresh>>
    BY <1>5 DEF Ask, Execute
  <2>2. /\ pc[t] \in {"ask", "execute"} /\ pc'[t] \in {"execute", "audit"}
        /\ \A u \in Threads \ {t} : pc'[u] = pc[u]
    BY <1>5 DEF Ask, Execute, Go, TypeInv, ProcessType
  <2>11. Keeps
    BY <2>1, <2>2 DEF schema, fresh
  <2>12. Goes
    BY <2>1, <2>2 DEF schema, fresh
  <2>13. Stays
    BY <1>0, <2>1, <2>2 DEF schema, fresh
  <2>14. Takes
    BY <2>1, <2>2 DEF schema, fresh
  <2>15. Knows
    BY <2>1, <2>2 DEF schema, fresh
  <2> QED
    BY <1>A, <2>1, <2>11, <2>12, <2>13, <2>14, <2>15 DEF schema, fresh
<1>6. ASSUME NEW t \in Threads, Lookup(t) PROVE FreshInv'
  <2>1. UNCHANGED <<schema, using, fresh>> /\ got'[t] = cache
        /\ \A u \in Threads \ {t} : got'[u] = got[u]
    BY <1>6 DEF Lookup, TypeInv, ProcessType
  <2>2. /\ pc[t] = "lookup" /\ \A u \in Threads \ {t} : pc'[u] = pc[u]
        /\ \/ pc'[t] = "fetch"
           \/ pc'[t] = "assign" /\ cache # Unknown
    BY <1>6 DEF Lookup, Go, TypeInv, ProcessType
  <2>11. Keeps
    BY <2>1, <2>2 DEF schema, fresh
  <2>12. Goes
    BY <2>1, <2>2 DEF schema, fresh
  <2>13. Stays
    BY <1>0, <2>1, <2>2 DEF schema, fresh
  <2>14. Takes
    BY <2>1, <2>2 DEF schema, fresh
  <2>15. Knows
    BY <2>1, <2>2 DEF schema, fresh
  <2> QED
    BY <1>A, <2>1, <2>11, <2>12, <2>13, <2>14, <2>15 DEF schema, fresh
<1>7. ASSUME NEW t \in Threads, Fetch(t) PROVE FreshInv'
  <2>1. UNCHANGED <<schema, using, fresh>> /\ got'[t] \in {catalog, Fallback}
        /\ \A u \in Threads \ {t} : got'[u] = got[u]
    BY <1>7 DEF Fetch, TypeInv, ProcessType
  <2>2. /\ pc[t] = "fetch" /\ pc'[t] \in {"store", "assign"}
        /\ \A u \in Threads \ {t} : pc'[u] = pc[u]
    BY <1>7 DEF Fetch, Go, TypeInv, ProcessType
  <2>11. Keeps
    BY <1>0, <2>1, <2>2 DEF schema, fresh
  <2>12. Goes
    BY <1>0, <2>1, <2>2 DEF schema, fresh
  <2>13. Stays
    BY <1>0, <2>1, <2>2 DEF schema, fresh
  <2>14. Takes
    BY <1>0, <2>1, <2>2 DEF schema, fresh
  <2>15. Knows
    BY <1>0, <2>1, <2>2 DEF schema, fresh
  <2> QED
    BY <1>A, <2>1, <2>11, <2>12, <2>13, <2>14, <2>15 DEF schema, fresh
<1>8. ASSUME NEW t \in Threads, Store(t) PROVE FreshInv'
  <2>1. UNCHANGED <<agent, context, using, got, since, floor, passed>> /\ cache' = got[t]
        /\ (~overtaken' => ~overtaken /\ t \notin passed)
    BY <1>8 DEF Store, Overtakes
  <2>2. /\ pc[t] = "store" /\ pc'[t] = "assign" /\ \A u \in Threads \ {t} : pc'[u] = pc[u]
    BY <1>8 DEF Store, Go, TypeInv, ProcessType
  <2>3. got[t] \notin {Fallback, Unknown}
    BY <2>2 DEF TypeInv, Holding
  <2>11. Keeps
    BY <1>0, <2>1, <2>2, <2>3
  <2>12. Goes
    BY <1>0, <2>1, <2>2, <2>3
  <2>13. Stays
    BY <1>0, <2>1, <2>2, <2>3
  <2>14. Takes
    BY <1>0, <2>1, <2>2, <2>3
  <2>15. Knows
    BY <1>0, <2>1, <2>2, <2>3
  <2> QED
    BY <1>A, <2>1, <2>11, <2>12, <2>13, <2>14, <2>15 DEF schema, fresh
<1>9. ASSUME NEW t \in Threads, Publish(t) PROVE FreshInv'
  <2>1. /\ UNCHANGED <<cache, using, since, floor>> /\ agent' = t /\ context'[t] = got[t]
        /\ passed' = passed \ {t} /\ (~overtaken' => ~overtaken /\ t \notin passed)
        /\ \A u \in Threads \ {t} : got'[u] = got[u]
    BY <1>9 DEF Publish, Overtakes, TypeInv, ProcessType
  <2>2. /\ pc[t] = "assign" /\ using[t] = None /\ pc'[t] = "use"
        /\ \A u \in Threads \ {t} : pc'[u] = pc[u]
    BY <1>9 DEF Publish, Go, TypeInv, ProcessType
  <2>11. Keeps
    BY <1>0, <2>1, <2>2
  <2>12. Goes
    BY <1>0, <2>1, <2>2
  <2>13. Stays
    BY <1>0, <2>1, <2>2
  <2>14. Takes
    BY <1>0, <2>1, <2>2
  <2>15. Knows
    BY <1>0, <2>1, <2>2
  <2> QED
    BY <1>A, <2>1, <2>11, <2>12, <2>13, <2>14, <2>15 DEF schema, fresh
<1>10. ASSUME NEW t \in Threads, NoClient(t) \/ Audit(t) PROVE FreshInv'
  <2>1. /\ UNCHANGED <<schema, since, floor, overtaken>>
        /\ passed' = passed \ {t} \/ (passed' = passed /\ pc[t] = "audit")
        /\ using'[t] = None /\ pc'[t] = "idle"
        /\ \A u \in Threads \ {t} : got'[u] = got[u] /\ using'[u] = using[u] /\ pc'[u] = pc[u]
    BY <1>10 DEF NoClient, Audit, Done, fresh, TypeInv, ProcessType
  <2>11. Keeps
    BY <2>1 DEF schema
  <2>12. Goes
    BY <2>1 DEF schema
  <2>13. Stays
    BY <1>0, <2>1 DEF schema
  <2>14. Takes
    BY <2>1 DEF schema
  <2>15. Knows
    BY <2>1 DEF schema
  <2> QED
    BY <1>A, <2>1, <2>11, <2>12, <2>13, <2>14, <2>15 DEF schema, fresh
<1>11. ASSUME NEW t \in Threads, Clear(t) PROVE FreshInv'
  <2>1. /\ UNCHANGED <<agent, context, using, got, floor, overtaken>> /\ cache' = Unknown
        /\ passed' = passed \cup {u \in Threads \ {t} : Building(u)}
        /\ since'[t] = catalog /\ \A u \in Threads \ {t} : since'[u] = since[u]
    BY <1>11 DEF Clear, TypeInv, ProcessType
  <2>2. /\ pc[t] = "clear" /\ pc'[t] = "lookup" /\ \A u \in Threads \ {t} : pc'[u] = pc[u]
    BY <1>11 DEF Clear, Go, TypeInv, ProcessType
  <2>3. \A u \in Threads : Building(u)' => u \in passed'
    BY <2>1, <2>2
  <2>4. \A u \in passed' : Building(u)'
    BY <1>0, <2>1, <2>2
  <2>5. \A v \in 0..catalog : AllSince(v)'
    BY <2>1, <2>3
  <2> QED
    BY <1>0, <2>1, <2>2, <2>3, <2>4, <2>5
<1>12. ASSUME NEW t \in Threads, Refreshed(t) PROVE FreshInv'
  <2>1. /\ UNCHANGED <<cache, agent, since>> /\ passed' = passed \ {t}
        /\ (~overtaken' => ~overtaken /\ t \notin passed /\ using[t] = agent)
        /\ context' = [context EXCEPT ![using[t]] = got[t]]
        /\ floor' = (IF since[t] > floor THEN since[t] ELSE floor)
    BY <1>12 DEF Refreshed, Overtakes
  <2>2. /\ pc[t] = "assign" /\ using[t] # None /\ pc'[t] = "idle" /\ using'[t] = None
        /\ \A u \in Threads \ {t} : got'[u] = got[u] /\ using'[u] = using[u] /\ pc'[u] = pc[u]
    BY <1>12 DEF Refreshed, Done, TypeInv, ProcessType
  <2>3. ASSUME ~overtaken' PROVE AllSince(since[t]) /\ AllSince(floor) /\ AtLeast(got[t], floor')
    BY <1>0, <2>1, <2>2, <2>3
  <2>4. ASSUME ~overtaken' PROVE context'[agent] = got[t] /\ agent \in Threads
    BY <2>1, <2>2, <2>4 DEF TypeInv, ProcessType
  <2>5. ASSUME ~overtaken' PROVE AllSince(floor)'
    BY <2>1, <2>2, <2>3, <2>5
  <2>6. ASSUME ~overtaken', NEW u \in Threads, Refreshing(u)' PROVE AllSince(since[u])'
    BY <2>1, <2>2, <2>6
  <2>7. \A u \in passed' : Building(u)'
    BY <1>0, <2>1, <2>2
  <2>8. \A u \in Threads : pc'[u] \in {"idle", "check", "use"} => using'[u] = None
    BY <2>2
  <2> QED
    BY <2>1, <2>2, <2>3, <2>4, <2>5, <2>6, <2>7, <2>8
<1>13. CASE FlushFrame \/ FlushWrite \/ FlushClear \/ FlushRaises
  BY <1>1, <1>13 DEF FlushFrame, FlushWrite, FlushClear, FlushRaises
<1>14. CASE Restart
  BY <1>14 DEF Restart
<1>15. CASE UNCHANGED vars
  BY <1>1, <1>15 DEF vars
<1> QED
  BY <1>2, <1>3, <1>4, <1>5, <1>6, <1>7, <1>8, <1>9, <1>10, <1>11, <1>12, <1>13, <1>14, <1>15
     DEF Next, Handle

(* After a refresh, questions are put with tables at least as new as when  *)
(* the refresh began, for any number of threads that refresh, fail, and    *)
(* make agents, unless one of the two races of ContextIsFresh occurred.    *)
THEOREM ContextsAreFresh == Spec => []ContextIsFresh
<1>1. Init => FreshInv
  BY ThreadAssumption DEF Init, FreshInv, AllSince, AtLeast, Refreshing, Building, Fallback, Unknown
<1>2. FreshInv => ContextIsFresh
  BY DEF FreshInv, AtLeast, ContextIsFresh
<1> QED
  BY TypeInvariant, FreshStep, <1>1, <1>2, PTL DEF Spec
=============================================================================
