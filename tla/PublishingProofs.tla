--------------------------- MODULE PublishingProofs ---------------------------
(***************************************************************************)
(* Proofs about Publishing, for any tabs, authors, contents, titles,       *)
(* balances and number of attempts.                                        *)
(***************************************************************************)
EXTENDS Publishing, AuroraProgramProofs, FiniteSetTheorems

\* The upload of attempt i is on Arweave, with its row and, if private, its key.
Backed(i) == /\ i \in stored \cap rows
             /\ ~clicks[i].isPublic => i \in secrets

\* How far the handler has come says what it has stored, and there is a
\* transaction only after its good reply.
JobOK(i) ==
  /\ i \notin DOMAIN clicks => job[i] = "none"
  /\ job[i] = "row" => i \in stored
  /\ job[i] = "secret" => i \in rows
  /\ job[i] = "reply" => Backed(i)
  /\ tx[i] # "none" => job[i] = "reply"

\* The modal has an attempt under way, or shows its success.
Busy(m) == m.at # "none" \/ m.step = "success"

\* An attempt belongs to one tab; it comes to its wallet's second prompt, or
\* beyond, only after the good reply.
PastReply == {"blockhash", "simulate", "send", "confirm"}
ModalOK(t) ==
  /\ Busy(modal[t]) =>
       /\ modal[t].attempt \in DOMAIN clicks
       /\ \A u \in Tabs : Busy(modal[u]) /\ modal[u].attempt = modal[t].attempt => u = t
  /\ modal[t].at = "signMessage" => job[modal[t].attempt] = "none"
  /\ modal[t].at \in PastReply => job[modal[t].attempt] = "reply"

\* What a wallet has registered, whatever the hashes are.
Registered(w) == {h \in Hashes : accounts[<<w, h>>] # NoArticle}
PaidOnce(w) == /\ IsFiniteSet(Registered(w))
               /\ funds[w] + Cardinality(Registered(w)) = Balance[w]

ServerInv == /\ PublishTypeOK
             /\ \A i \in Attempts : JobOK(i)
             /\ \A t \in Tabs : ModalOK(t)
ChainInv == RecordIsBacked /\ \A w \in Keys : PaidOnce(w)

IInv == ServerInv /\ LandedIsRegistered /\ ChainInv

-----------------------------------------------------------------------------

\* What an attempt that was clicked would register is an instruction.
LEMMA IxType ==
  ASSUME PublishTypeOK, NEW i \in DOMAIN clicks
  PROVE  /\ i \in Attempts /\ clicks[i] \in Click
         /\ Ix(i) \in Instruction
         /\ Ix(i).content_hash = clicks[i].content
         /\ Ix(i).arweave_id = ArweaveId[i]
         /\ Ix(i).is_public = clicks[i].isPublic
<1>1. i \in Attempts /\ clicks[i] \in Click
  BY DEF PublishTypeOK
<1>2. /\ clicks[i].content \in Hashes /\ clicks[i].title \in Strings
      /\ clicks[i].isPublic \in BOOLEAN
  BY <1>1, PublishingAssumption DEF Click
<1>3. intuition \in Hashes /\ ArweaveId[i] \in Strings /\ aiScope \in Strings
  BY <1>1, PublishingAssumption
<1>4. QED
  BY <1>1, <1>2, <1>3 DEF Ix, Instruction

\* The modal's next states.
LEMMA ModalTypes ==
  ASSUME PublishTypeOK, NEW t \in Tabs
  PROVE  /\ modal[t] \in Modal
         /\ Form(t) \in Modal /\ ~Busy(Form(t))
         /\ NewForm \in Modal /\ ~Busy(NewForm)
<1>1. modal[t] \in Modal
  BY DEF PublishTypeOK
<1>2. /\ Form(t) \in Modal /\ Form(t).at = "none" /\ Form(t).step = "form"
  BY <1>1 DEF Form, Modal, Awaits
<1>3. /\ NewForm \in Modal /\ NewForm.at = "none" /\ NewForm.step = "form"
  BY DEF NewForm, Modal, Awaits
<1>4. QED
  BY <1>1, <1>2, <1>3 DEF Busy, Modal

LEMMA InvInit == PublishInit => IInv
<1> SUFFICES ASSUME PublishInit
             PROVE  IInv
  OBVIOUS
<1>1. ProgramTypeOK
  BY ProgramAssumption DEF PublishInit, ProgramInit, ProgramTypeOK
<1>2. \A t \in Tabs : modal[t] = NewForm /\ ~Busy(modal[t]) /\ modal[t].at = "none"
  BY DEF PublishInit, NewForm, Busy
<1>3. DOMAIN clicks = {} /\ clicks \in [DOMAIN clicks -> Click]
  BY DEF PublishInit
<1>4. PublishTypeOK
  BY <1>1, <1>2, <1>3, PublishingAssumption
  DEF PublishInit, PublishTypeOK, NewForm, Modal, Awaits, Jobs
<1>5. \A i \in Attempts : JobOK(i)
  BY DEF PublishInit, JobOK
<1>6. \A t \in Tabs : ModalOK(t)
  BY <1>2 DEF ModalOK, PastReply
<1>7. LandedIsRegistered
  BY DEF PublishInit, LandedIsRegistered
<1>8. RecordIsBacked
  BY DEF PublishInit, ProgramInit, RecordIsBacked
<1>9. ASSUME NEW w \in Keys PROVE PaidOnce(w)
  <2>1. Registered(w) = {}
    BY DEF Registered, PublishInit, ProgramInit, Addresses
  <2>2. funds[w] = Balance[w] /\ Balance[w] \in Nat
    BY PublishingAssumption DEF PublishInit
  <2>3. QED
    BY <2>1, <2>2, FS_EmptySet DEF PaidOnce
<1>10. QED
  BY <1>4, <1>5, <1>6, <1>7, <1>8, <1>9 DEF IInv, ServerInv, ChainInv

-----------------------------------------------------------------------------
(* Steps of the modal *)

\* What the three stores hold stays good as they grow and clicks are added.
LEMMA ChainInvKept ==
  ASSUME IInv, UNCHANGED chain, stored \subseteq stored', rows \subseteq rows',
         secrets \subseteq secrets', \A i \in DOMAIN clicks : clicks'[i] = clicks[i]
  PROVE  ChainInv'
<1>1. RecordIsBacked'
  BY DEF IInv, ServerInv, ChainInv, PublishTypeOK, RecordIsBacked, chain
<1>2. \A w \in Keys : PaidOnce(w)'
  BY DEF IInv, ChainInv, PaidOnce, Registered, chain
<1>3. QED
  BY <1>1, <1>2 DEF ChainInv

\* A tab goes on with its attempt or gives it up, and may have sent its
\* transaction: the invariant stays true if what the modal then says is.
LEMMA ModalStep ==
  ASSUME IInv, NEW t \in Tabs, NEW m \in Modal, Shows(t, m),
         UNCHANGED <<chain, server, clicks>>,
         Busy(m) => Busy(modal[t]) /\ m.attempt = modal[t].attempt,
         m.at # "none" => m.isPublishing,
         m.at # "signMessage",
         m.at \in PastReply => job[m.attempt] = "reply",
         \/ tx' = tx
         \/ /\ modal[t].at = "send"
            /\ tx' = [tx EXCEPT ![modal[t].attempt] = "sent"]
  PROVE  IInv'
<1>1. /\ PublishTypeOK /\ \A i \in Attempts : JobOK(i)
      /\ \A u \in Tabs : ModalOK(u)
      /\ LandedIsRegistered
  BY DEF IInv, ServerInv
<1>2. /\ modal \in [Tabs -> Modal] /\ modal' \in [Tabs -> Modal]
      /\ modal'[t] = m /\ \A u \in Tabs : u # t => modal'[u] = modal[u]
  BY <1>1 DEF PublishTypeOK, Shows
<1>3. /\ job' = job /\ stored' = stored /\ rows' = rows /\ secrets' = secrets
      /\ clicks' = clicks
      /\ accounts' = accounts /\ clock' = clock /\ signer' = signer /\ funds' = funds
  BY DEF server, chain
<1>4. modal[t].at = "send" =>
        /\ modal[t].attempt \in DOMAIN clicks /\ modal[t].attempt \in Attempts
        /\ job[modal[t].attempt] = "reply"
        /\ \A u \in Tabs : Busy(modal[u]) /\ modal[u].attempt = modal[t].attempt => u = t
  BY <1>1 DEF ModalOK, Busy, PastReply, PublishTypeOK
<1>5. /\ tx' \in [Attempts -> {"none", "sent", "landed", "failed", "expired"}]
      /\ \A i \in Attempts :
           tx'[i] = tx[i] \/ (modal[t].at = "send" /\ i = modal[t].attempt)
  BY <1>1, <1>4 DEF PublishTypeOK
<1>6. m.at # "none" => m.isPublishing /\ m.attempt \in DOMAIN clicks
  BY <1>1 DEF Busy, ModalOK
<1>7. PublishTypeOK'
  BY <1>1, <1>2, <1>3, <1>5, <1>6 DEF PublishTypeOK, ProgramTypeOK
<1>8. \A i \in Attempts : JobOK(i)'
  BY <1>1, <1>3, <1>4, <1>5 DEF JobOK, Backed
<1>9. ASSUME NEW u \in Tabs PROVE ModalOK(u)'
  <2>1. Busy(modal'[u]) =>
          /\ modal'[u].attempt \in DOMAIN clicks
          /\ \A v \in Tabs : Busy(modal'[v]) /\ modal'[v].attempt = modal'[u].attempt => v = u
    BY <1>1, <1>2 DEF ModalOK
  <2>2. modal'[u].at = "signMessage" => job[modal'[u].attempt] = "none"
    BY <1>1, <1>2 DEF ModalOK
  <2>3. modal'[u].at \in PastReply => job[modal'[u].attempt] = "reply"
    BY <1>1, <1>2 DEF ModalOK
  <2>4. QED
    BY <1>3, <2>1, <2>2, <2>3 DEF ModalOK
<1>10. LandedIsRegistered'
  <2>1. \A i \in Attempts : tx'[i] = "landed" => tx[i] = "landed"
    BY <1>1 DEF PublishTypeOK
  <2>2. QED
    BY <1>1, <1>3, <2>1 DEF LandedIsRegistered, chain
<1>11. ChainInv'
  BY <1>3, ChainInvKept
<1>12. QED
  BY <1>7, <1>8, <1>9, <1>10, <1>11 DEF IInv, ServerInv

\* The steps that leave the form, the server and the chain to themselves.
LEMMA BrowserInv ==
  ASSUME IInv, NEW t \in Tabs,
         Browser(t) \/ SendTransaction(t) \/ Reload(t)
  PROVE  IInv'
<1>1. PublishTypeOK /\ ModalOK(t)
  BY DEF IInv, ServerInv
<1>2. modal[t].at # "none" => modal[t].isPublishing /\ Busy(modal[t])
  BY <1>1 DEF PublishTypeOK, Busy
<1>3. ASSUME BackToForm(t) \/ Shows(t, NewForm), UNCHANGED <<chain, server, clicks>>,
             \/ tx' = tx
             \/ /\ modal[t].at = "send"
                /\ tx' = [tx EXCEPT ![modal[t].attempt] = "sent"]
      PROVE  IInv'
  <2>1. \E m \in {Form(t), NewForm} : Shows(t, m)
    BY <1>3 DEF BackToForm
  <2>2. \A m \in {Form(t), NewForm} : m \in Modal /\ ~Busy(m)
    BY <1>1, ModalTypes
  <2>3. QED
    <3>1. PICK m \in Modal : Shows(t, m) /\ ~Busy(m)
      BY <2>1, <2>2
    <3>2. m.at = "none"
      BY <3>1 DEF Busy
    <3>3. m.at # "signMessage" /\ m.at \notin PastReply
      BY <3>2 DEF PastReply
    <3>4. QED
      BY <1>3, <3>1, <3>2, <3>3, ModalStep
<1>4. ASSUME NEW step \in {"publishing", "success"}, NEW at \in PastReply \cup {"none"},
             GoesTo(t, step, at), UNCHANGED <<chain, server, clicks>>,
             modal[t].at # "none",
             job[modal[t].attempt] = "reply",
             \/ tx' = tx
             \/ /\ modal[t].at = "send"
                /\ tx' = [tx EXCEPT ![modal[t].attempt] = "sent"]
      PROVE  IInv'
  <2> DEFINE m == [modal[t] EXCEPT !.step = step, !.at = at]
  <2>1. Shows(t, m)
    BY <1>4 DEF GoesTo
  <2>2. /\ m \in Modal /\ m.step = step /\ m.at = at
        /\ m.attempt = modal[t].attempt /\ m.isPublishing = modal[t].isPublishing
    <3>1. modal[t] \in Modal
      BY <1>1, ModalTypes
    <3>2. step \in {"form", "uploading", "publishing", "success"} /\ at \in Awaits
      BY DEF Awaits, PastReply
    <3>3. QED
      BY <3>1, <3>2 DEF Modal
  <2>3. m.at # "signMessage"
    BY <2>2 DEF PastReply
  <2> HIDE DEF m
  <2>4. QED
    BY <1>2, <1>4, <2>1, <2>2, <2>3, ModalStep
<1>5. CASE PrepareReply(t)
  BY <1>3, <1>4, <1>5 DEF PrepareReply, PastReply
<1>6. CASE PrepareFails(t) \/ ConfirmThrows(t) \/ Reload(t)
  BY <1>3, <1>6 DEF PrepareFails, ConfirmThrows, Reload
<1>7. CASE LatestBlockhash(t)
  BY <1>1, <1>3, <1>4, <1>7 DEF LatestBlockhash, PastReply, ModalOK
<1>8. CASE Simulate(t)
  BY <1>1, <1>3, <1>4, <1>8 DEF Simulate, PastReply, ModalOK
<1>9. CASE ConfirmTransaction(t)
  BY <1>1, <1>4, <1>9 DEF ConfirmTransaction, PastReply, ModalOK
<1>10. CASE SendTransaction(t)
  BY <1>1, <1>3, <1>4, <1>10 DEF SendTransaction, PastReply, ModalOK
<1>11. QED
  BY <1>5, <1>6, <1>7, <1>8, <1>9, <1>10 DEF Browser

-----------------------------------------------------------------------------
(* Steps that are of the server, the form or the cluster *)

\* A click is recorded before anything is done for it.
LEMMA PublishInv ==
  ASSUME IInv, NEW t \in Tabs, Publish(t)
  PROVE  IInv'
<1>1. /\ PublishTypeOK /\ \A i \in Attempts : JobOK(i)
      /\ \A u \in Tabs : ModalOK(u)
      /\ LandedIsRegistered
  BY DEF IInv, ServerInv
<1>2. /\ job' = job /\ stored' = stored /\ rows' = rows /\ secrets' = secrets
      /\ tx' = tx
      /\ accounts' = accounts /\ clock' = clock /\ signer' = signer /\ funds' = funds
  BY DEF Publish, server, chain
<1>3. PICK i \in Attempts \ DOMAIN clicks, content \in Contents, title \in Titles,
          isPublic \in BOOLEAN :
        /\ clicks' = [j \in DOMAIN clicks \cup {i} |->
                        IF j = i THEN [author |-> Author[t], content |-> content,
                                       title |-> title, isPublic |-> isPublic]
                                 ELSE clicks[j]]
        /\ Shows(t, [step |-> "uploading", isPublishing |-> TRUE,
                     at |-> "signMessage", attempt |-> i])
  BY DEF Publish
<1> DEFINE m == [step |-> "uploading", isPublishing |-> TRUE,
                 at |-> "signMessage", attempt |-> i]
           c == [author |-> Author[t], content |-> content,
                 title |-> title, isPublic |-> isPublic]
<1>4. /\ m \in Modal /\ m.at = "signMessage" /\ m.attempt = i /\ m.isPublishing
      /\ m.step # "success" /\ Busy(m)
  BY DEF Modal, Awaits, Busy
<1>5. c \in Click
  <2>1. Author[t] \in Keys /\ content \in Hashes /\ title \in Strings
    BY PublishingAssumption
  <2>2. QED
    BY <2>1 DEF Click
<1>6. /\ clicks' = [j \in DOMAIN clicks \cup {i} |-> IF j = i THEN c ELSE clicks[j]]
      /\ Shows(t, m)
  BY <1>3
<1> HIDE DEF m, c
<1>7. /\ DOMAIN clicks' = DOMAIN clicks \cup {i}
      /\ clicks' \in [DOMAIN clicks' -> Click]
      /\ \A j \in DOMAIN clicks : clicks'[j] = clicks[j]
  <2>1. clicks \in [DOMAIN clicks -> Click]
    BY <1>1 DEF PublishTypeOK
  <2>2. QED
    BY <1>5, <1>6, <2>1
<1>8. /\ modal \in [Tabs -> Modal] /\ modal' \in [Tabs -> Modal]
      /\ modal'[t] = m /\ \A u \in Tabs : u # t => modal'[u] = modal[u]
  BY <1>1, <1>4, <1>6 DEF PublishTypeOK, Shows
<1>9. \A u \in Tabs : Busy(modal[u]) => modal[u].attempt \in DOMAIN clicks
  BY <1>1 DEF ModalOK
<1>10. PublishTypeOK'
  <2>1. \A u \in Tabs : modal'[u].at # "none" => /\ modal'[u].isPublishing
                                                /\ modal'[u].attempt \in DOMAIN clicks'
    BY <1>1, <1>4, <1>7, <1>8 DEF PublishTypeOK
  <2>2. QED
    BY <1>1, <1>2, <1>7, <1>8, <2>1 DEF PublishTypeOK, ProgramTypeOK
<1>11. ASSUME NEW j \in Attempts PROVE JobOK(j)'
  <2>1. /\ j \notin DOMAIN clicks' => j \notin DOMAIN clicks
        /\ JobOK(j)
    BY <1>1, <1>7
  <2>2. Backed(j) => j \in DOMAIN clicks
    BY <1>1 DEF Backed, PublishTypeOK
  <2>3. Backed(j) => Backed(j)'
    BY <1>2, <1>7, <2>2 DEF Backed
  <2>4. QED
    BY <1>2, <2>1, <2>3 DEF JobOK
<1>12. ASSUME NEW u \in Tabs PROVE ModalOK(u)'
  <2>1. CASE u = t
    BY <1>1, <1>2, <1>4, <1>7, <1>8, <1>9, <2>1 DEF ModalOK, JobOK, PastReply
  <2>2. CASE u # t
    BY <1>1, <1>2, <1>4, <1>7, <1>8, <1>9, <2>2 DEF ModalOK
  <2>3. QED
    BY <2>1, <2>2
<1>13. LandedIsRegistered'
  <2>1. \A j \in Attempts : tx[j] = "landed" => j \in DOMAIN clicks
    BY <1>1 DEF JobOK
  <2>2. QED
    BY <1>1, <1>2, <1>7, <2>1 DEF LandedIsRegistered
<1>14. ChainInv'
  BY <1>2, <1>7, ChainInvKept DEF chain
<1>15. QED
  BY <1>10, <1>11, <1>12, <1>13, <1>14 DEF IInv, ServerInv

\* The request goes out to a handler that has not started.
LEMMA SignInv ==
  ASSUME IInv, NEW t \in Tabs, SignMessage(t)
  PROVE  IInv'
<1>1. /\ PublishTypeOK /\ \A i \in Attempts : JobOK(i)
      /\ \A u \in Tabs : ModalOK(u)
      /\ LandedIsRegistered
  BY DEF IInv, ServerInv
<1>2. modal[t].at = "signMessage" /\ Busy(modal[t]) /\ modal[t].isPublishing
  BY <1>1 DEF SignMessage, Busy, PublishTypeOK
<1>3. CASE BackToForm(t) /\ UNCHANGED job
  <2>1. Shows(t, Form(t)) /\ UNCHANGED <<chain, server, clicks>> /\ tx' = tx
    BY <1>3 DEF BackToForm, SignMessage, server
  <2>2. Form(t) \in Modal /\ ~Busy(Form(t))
    BY <1>1, ModalTypes
  <2>3. Form(t).at = "none" /\ Form(t).step # "success"
    BY <2>2 DEF Busy
  <2>4. Form(t).at \notin PastReply
    BY <2>3 DEF PastReply
  <2>5. QED
    BY <2>1, <2>2, <2>3, <2>4, ModalStep
<1>4. CASE /\ GoesTo(t, "uploading", "prepare")
           /\ job' = [job EXCEPT ![modal[t].attempt] = "check"]
  <2> DEFINE m == [modal[t] EXCEPT !.step = "uploading", !.at = "prepare"]
             i == modal[t].attempt
  <2>1. i \in DOMAIN clicks /\ i \in Attempts /\ job[i] = "none"
    BY <1>1, <1>2 DEF ModalOK, PublishTypeOK
  <2>2. /\ m \in Modal /\ m.at = "prepare" /\ m.step = "uploading"
        /\ m.attempt = modal[t].attempt /\ m.isPublishing = modal[t].isPublishing
    <3>1. modal[t] \in Modal
      BY <1>1, ModalTypes
    <3>2. QED
      BY <3>1 DEF Modal, Awaits
  <2>3. Shows(t, m)
    BY <1>4 DEF GoesTo
  <2>4. /\ stored' = stored /\ rows' = rows /\ secrets' = secrets
        /\ tx' = tx /\ clicks' = clicks
        /\ accounts' = accounts /\ clock' = clock /\ signer' = signer /\ funds' = funds
    BY DEF SignMessage, chain
  <2> HIDE DEF m
  <2>5. /\ modal \in [Tabs -> Modal] /\ modal' \in [Tabs -> Modal]
        /\ modal'[t] = m /\ \A u \in Tabs : u # t => modal'[u] = modal[u]
    BY <1>1, <2>2, <2>3 DEF PublishTypeOK, Shows
  <2>6. /\ job' \in [Attempts -> Jobs] /\ job'[i] = "check"
        /\ \A j \in Attempts : j # i => job'[j] = job[j]
    BY <1>1, <1>4, <2>1 DEF PublishTypeOK, Jobs
  <2>7. PublishTypeOK'
    <3>1. \A u \in Tabs : modal'[u].at # "none" => /\ modal'[u].isPublishing
                                                  /\ modal'[u].attempt \in DOMAIN clicks'
      BY <1>1, <1>2, <2>1, <2>2, <2>4, <2>5 DEF PublishTypeOK
    <3>2. QED
      BY <1>1, <2>4, <2>5, <2>6, <3>1 DEF PublishTypeOK, ProgramTypeOK
  <2>8. ASSUME NEW j \in Attempts PROVE JobOK(j)'
    BY <1>1, <2>1, <2>4, <2>6 DEF JobOK, Backed
  <2>9. ASSUME NEW u \in Tabs PROVE ModalOK(u)'
    <3>1. CASE u = t
      BY <1>1, <1>2, <2>1, <2>2, <2>4, <2>5, <3>1 DEF ModalOK, Busy, PastReply
    <3>2. CASE u # t
      <4>1. modal'[u] = modal[u] /\ ModalOK(u) /\ ModalOK(t)
        BY <1>1, <2>5, <3>2
      <4>2. Busy(modal[u]) => modal[u].attempt # i
        BY <1>2, <3>2, <4>1 DEF ModalOK
      <4>3. modal[u].at = "signMessage" \/ modal[u].at \in PastReply => Busy(modal[u])
        BY DEF Busy, PastReply
      <4>4. Busy(modal[u]) => job'[modal[u].attempt] = job[modal[u].attempt]
        BY <1>1, <2>6, <4>1, <4>2 DEF ModalOK, PublishTypeOK
      <4>5. Busy(modal[u]) =>
              /\ modal[u].attempt \in DOMAIN clicks
              /\ \A v \in Tabs : Busy(modal'[v]) /\ modal'[v].attempt = modal[u].attempt => v = u
        <5>1. modal'[t].attempt = i
          BY <2>2, <2>5
        <5>2. ASSUME NEW v \in Tabs, Busy(modal[u]), Busy(modal'[v]),
                     modal'[v].attempt = modal[u].attempt
              PROVE  v = u
          <6>1. v # t
            BY <4>2, <5>1, <5>2
          <6>2. modal'[v] = modal[v]
            BY <2>5, <6>1
          <6>3. QED
            BY <4>1, <5>2, <6>2 DEF ModalOK
        <5>3. Busy(modal[u]) => modal[u].attempt \in DOMAIN clicks
          BY <4>1 DEF ModalOK
        <5>4. QED
          BY <5>2, <5>3
      <4>6. QED
        BY <2>4, <4>1, <4>3, <4>4, <4>5 DEF ModalOK
    <3>3. QED
      BY <3>1, <3>2
  <2>10. LandedIsRegistered'
    BY <1>1, <2>2, <2>4, <2>5 DEF LandedIsRegistered
  <2>11. ChainInv'
    BY <2>4, ChainInvKept DEF chain
  <2>12. QED
    BY <2>7, <2>8, <2>9, <2>10, <2>11 DEF IInv, ServerInv
<1>5. QED
  BY <1>3, <1>4 DEF SignMessage

\* The handler goes on: what it has stored is never taken back, and it comes
\* to its reply with everything stored.
LEMMA HandlerInv ==
  ASSUME IInv, NEW i \in Attempts, Handler(i)
  PROVE  IInv'
<1>1. /\ PublishTypeOK /\ \A j \in Attempts : JobOK(j)
      /\ \A u \in Tabs : ModalOK(u)
      /\ LandedIsRegistered
  BY DEF IInv, ServerInv
<1>2. /\ modal' = modal /\ clicks' = clicks /\ tx' = tx
      /\ accounts' = accounts /\ clock' = clock /\ signer' = signer /\ funds' = funds
  BY DEF Handler, CheckPayload, Upload, SaveRow, SaveSecret, JobFails, chain
<1>3. job[i] \in Running
  BY DEF Handler, CheckPayload, Upload, SaveRow, SaveSecret, JobFails, Running
<1>4. i \in DOMAIN clicks /\ tx[i] = "none"
  BY <1>1, <1>3 DEF JobOK, Running
<1>5. /\ stored \subseteq stored' /\ rows \subseteq rows' /\ secrets \subseteq secrets'
      /\ stored' \subseteq stored \cup {i} /\ rows' \subseteq rows \cup {i}
      /\ secrets' \subseteq secrets \cup {i}
  BY DEF Handler, CheckPayload, Upload, SaveRow, SaveSecret, JobFails
<1>6. /\ \E next \in Jobs \ {"none"} : job' = [job EXCEPT ![i] = next]
      /\ job' \in [Attempts -> Jobs]
      /\ job'[i] = "row" => i \in stored'
      /\ job'[i] = "secret" => i \in rows'
      /\ job'[i] = "reply" => i \in stored' /\ i \in rows'
                              /\ (~clicks[i].isPublic => i \in secrets')
      /\ i \in rows' => i \in stored'
      /\ i \in secrets' => i \in rows'
  <2>1. job \in [Attempts -> Jobs] /\ JobOK(i) /\ rows \subseteq stored /\ secrets \subseteq rows
    BY <1>1 DEF PublishTypeOK
  <2>2. CASE CheckPayload(i)
    BY <2>1, <2>2 DEF CheckPayload, AfterCheck, Jobs
  <2>3. CASE Upload(i)
    BY <2>1, <2>3 DEF Upload, Jobs
  <2>4. CASE SaveRow(i)
    <3>1. /\ job[i] = "row" /\ i \in stored /\ stored' = stored
          /\ rows' = rows \cup {i} /\ secrets' = secrets
          /\ job' = [job EXCEPT ![i] = AfterRow(i)]
      BY <2>1, <2>4 DEF SaveRow, JobOK
    <3>2. \/ clicks[i].isPublic /\ AfterRow(i) = "reply"
          \/ ~clicks[i].isPublic /\ AfterRow(i) = "secret"
      BY DEF AfterRow
    <3>3. QED
      BY <2>1, <3>1, <3>2 DEF Jobs
  <2>5. CASE SaveSecret(i)
    BY <2>1, <2>5 DEF SaveSecret, Jobs, JobOK
  <2>6. CASE JobFails(i)
    <3>1. job' = [job EXCEPT ![i] = "failed"]
      BY <2>6 DEF JobFails
    <3>2. PICK done \in BOOLEAN :
            /\ stored' = IF done /\ job[i] = "upload" THEN stored \cup {i} ELSE stored
            /\ rows' = IF done /\ job[i] = "row" THEN rows \cup {i} ELSE rows
            /\ secrets' = IF done /\ job[i] = "secret" THEN secrets \cup {i} ELSE secrets
      BY <2>6 DEF JobFails
    <3>3. (i \in rows' => i \in stored') /\ (i \in secrets' => i \in rows')
      BY <2>1, <3>2 DEF JobOK
    <3>4. job' \in [Attempts -> Jobs] /\ job'[i] = "failed"
      BY <2>1, <3>1 DEF Jobs
    <3>5. QED
      BY <3>1, <3>3, <3>4 DEF Jobs
  <2>7. QED
    BY <2>2, <2>3, <2>4, <2>5, <2>6 DEF Handler
<1>7. /\ \A j \in Attempts : j # i => job'[j] = job[j]
      /\ job'[i] # "none" /\ job[i] # "reply" /\ job[i] # "none"
  BY <1>1, <1>3, <1>6 DEF PublishTypeOK, Running
<1>8. PublishTypeOK'
  BY <1>1, <1>2, <1>4, <1>5, <1>6 DEF PublishTypeOK, ProgramTypeOK
<1>9. ASSUME NEW j \in Attempts PROVE JobOK(j)'
  <2>1. CASE j = i
    BY <1>2, <1>4, <1>6, <1>7, <2>1 DEF JobOK, Backed
  <2>2. CASE j # i
    BY <1>1, <1>2, <1>5, <1>7, <2>2 DEF JobOK, Backed
  <2>3. QED
    BY <2>1, <2>2
<1>10. ASSUME NEW u \in Tabs PROVE ModalOK(u)'
  <2>1. modal[u].at = "signMessage" \/ modal[u].at \in PastReply =>
          modal[u].attempt \in Attempts
    BY <1>1 DEF ModalOK, Busy, PastReply, PublishTypeOK
  <2>2. QED
    BY <1>1, <1>2, <1>7, <2>1 DEF ModalOK
<1>11. LandedIsRegistered'
  BY <1>1, <1>2 DEF LandedIsRegistered
<1>12. ChainInv'
  BY <1>2, <1>5, ChainInvKept DEF chain
<1>13. QED
  BY <1>8, <1>9, <1>10, <1>11, <1>12 DEF IInv, ServerInv

\* A transaction that is executed registers what is backed, and is paid for.
LEMMA ClusterInv ==
  ASSUME IInv, NEW i \in Attempts, Cluster(i)
  PROVE  IInv'
<1>1. /\ PublishTypeOK /\ \A j \in Attempts : JobOK(j)
      /\ \A u \in Tabs : ModalOK(u)
      /\ LandedIsRegistered
      /\ RecordIsBacked /\ \A w \in Keys : PaidOnce(w)
  BY DEF IInv, ServerInv, ChainInv
<1>2. /\ modal' = modal /\ clicks' = clicks /\ clock' = clock
      /\ job' = job /\ stored' = stored /\ rows' = rows /\ secrets' = secrets
      /\ tx[i] = "sent"
  BY DEF Cluster, Execute, Expire, chain, server, publish_article
<1>3. Backed(i) /\ job[i] = "reply" /\ i \in DOMAIN clicks
  BY <1>1, <1>2 DEF JobOK
<1>4. /\ tx' \in [Attempts -> {"none", "sent", "landed", "failed", "expired"}]
      /\ \A j \in Attempts : tx'[j] = tx[j] \/ j = i
  BY <1>1 DEF PublishTypeOK, Cluster, Execute, Expire
<1>5. \A j \in Attempts : JobOK(j)'
  BY <1>1, <1>2, <1>3, <1>4 DEF JobOK, Backed
<1>6. \A u \in Tabs : ModalOK(u)'
  BY <1>1, <1>2 DEF ModalOK
<1>7. \A j \in Attempts : tx'[j] = "landed" => tx[j] = "landed" \/ j = i
  BY <1>1, <1>2, <1>4
<1>8. CASE UNCHANGED chain /\ tx'[i] # "landed"
  <2>1. /\ accounts' = accounts /\ clock' = clock /\ signer' = signer /\ funds' = funds
    BY <1>8 DEF chain
  <2>2. PublishTypeOK'
    BY <1>1, <1>2, <1>4, <2>1 DEF PublishTypeOK, ProgramTypeOK
  <2>3. ChainInv'
    BY <1>2, <1>8, ChainInvKept
  <2>4. LandedIsRegistered'
    BY <1>1, <1>2, <1>7, <1>8, <2>1 DEF LandedIsRegistered
  <2>5. QED
    BY <1>5, <1>6, <2>2, <2>3, <2>4 DEF IInv, ServerInv
<1>9. CASE /\ WouldSucceed(i) /\ publish_article(clicks[i].author, Ix(i))
           /\ funds' = [funds EXCEPT ![clicks[i].author] = @ - 1]
  <2> DEFINE author == clicks[i].author
             content == clicks[i].content
             address == <<author, content>>
             new == Written(author, Ix(i))
  <2>1. /\ author \in Keys /\ content \in Hashes /\ address \in Addresses
        /\ Ix(i) \in Instruction /\ Ix(i).content_hash = content
        /\ Ix(i).arweave_id = ArweaveId[i] /\ Ix(i).is_public = clicks[i].isPublic
    <3>1. clicks[i] \in Click /\ Ix(i).content_hash = content
      BY <1>1, <1>3, IxType
    <3>2. author \in Keys /\ content \in Hashes
      BY <3>1, PublishingAssumption DEF Click
    <3>3. QED
      BY <1>1, <1>3, <3>1, <3>2, IxType DEF Addresses
  <2>2. /\ new \in Article /\ new # NoArticle
        /\ new.arweave_id = ArweaveId[i] /\ new.is_public = clicks[i].isPublic
    <3>1. new \in Article
      BY <1>1, <2>1, WrittenType DEF PublishTypeOK, ProgramTypeOK
    <3>2. /\ new.arweave_id = ArweaveId[i] /\ new.is_public = clicks[i].isPublic
      BY <2>1 DEF Written, Record
    <3>3. QED
      BY <3>1, <3>2, NoArticleAssumption
  <2>3. /\ accounts[address] = NoArticle /\ signer' = author
        /\ accounts' = [accounts EXCEPT ![address] = new]
        /\ funds[author] > 0
    BY <1>9, <2>1 DEF publish_article, CanPublish, Vacant, WouldSucceed
  <2>4. accounts \in [Addresses -> Article \cup {NoArticle}] /\ funds \in [Keys -> Nat]
    BY <1>1 DEF PublishTypeOK, ProgramTypeOK
  <2>5. /\ accounts' \in [Addresses -> Article \cup {NoArticle}]
        /\ accounts'[address] = new
        /\ \A a \in Addresses : a # address => accounts'[a] = accounts[a]
    <3> HIDE DEF address, new
    <3> QED
      BY <2>1, <2>2, <2>3, <2>4
  <2>6. /\ funds' \in [Keys -> Nat]
        /\ funds'[author] = funds[author] - 1
        /\ \A w \in Keys : w # author => funds'[w] = funds[w]
    BY <1>9, <2>1, <2>3, <2>4
  <2>7. PublishTypeOK'
    BY <1>1, <1>2, <1>4, <2>1, <2>3, <2>5, <2>6 DEF PublishTypeOK, ProgramTypeOK
  <2>8. RecordIsBacked'
    <3> SUFFICES ASSUME NEW a \in Addresses, accounts'[a] # NoArticle
                 PROVE  \E j \in stored \cap rows :
                          /\ ArweaveId[j] = accounts'[a].arweave_id
                          /\ <<clicks[j].author, clicks[j].content>> = a
                          /\ clicks[j].isPublic = accounts'[a].is_public
                          /\ ~clicks[j].isPublic => j \in secrets
      BY <1>2 DEF RecordIsBacked
    <3>1. CASE a = address
      <4>1. /\ i \in stored \cap rows
            /\ ~clicks[i].isPublic => i \in secrets
        BY <1>3 DEF Backed
      <4>2. /\ ArweaveId[i] = accounts'[a].arweave_id
            /\ clicks[i].isPublic = accounts'[a].is_public
        <5> HIDE DEF address, new
        <5> QED
          BY <2>2, <2>5, <3>1
      <4>3. <<clicks[i].author, clicks[i].content>> = a
        BY <3>1
      <4>4. QED
        BY <4>1, <4>2, <4>3
    <3>2. CASE a # address
      BY <1>1, <2>5, <3>2 DEF RecordIsBacked
    <3>3. QED
      BY <3>1, <3>2
  <2>9. ASSUME NEW w \in Keys PROVE PaidOnce(w)'
    <3>1. CASE w = author
      <4>1. content \notin Registered(w)
        BY <2>3, <3>1 DEF Registered
      <4>2. Registered(w)' = Registered(w) \cup {content}
        <5>1. \A h \in Hashes : <<w, h>> \in Addresses /\ (<<w, h>> = address <=> h = content)
          BY <3>1 DEF Addresses
        <5>2. \A h \in Hashes : accounts'[<<w, h>>] # NoArticle
                               <=> accounts[<<w, h>>] # NoArticle \/ h = content
          <6> HIDE DEF address, new, content
          <6> QED
            BY <2>2, <2>5, <5>1
        <5>3. QED
          BY <2>1, <5>2 DEF Registered
      <4>3. IsFiniteSet(Registered(w)) /\ funds[w] + Cardinality(Registered(w)) = Balance[w]
        BY <1>1 DEF PaidOnce
      <4>4. /\ IsFiniteSet(Registered(w)')
            /\ Cardinality(Registered(w)') = Cardinality(Registered(w)) + 1
        <5> HIDE DEF content
        <5>1. Cardinality(Registered(w) \cup {content}) = Cardinality(Registered(w)) + 1
          BY <4>1, <4>3, FS_AddElement
        <5>2. IsFiniteSet(Registered(w) \cup {content})
          BY <4>3, FS_AddElement
        <5>3. QED
          BY <4>2, <5>1, <5>2
      <4>5. /\ Cardinality(Registered(w)) \in Nat /\ funds[w] \in Nat
            /\ funds'[w] = funds[w] - 1
        BY <2>4, <2>6, <3>1, <4>3, FS_CardinalityType
      <4>6. funds'[w] + Cardinality(Registered(w)') = Balance[w]
        <5> HIDE DEF author, content
        <5> QED
          BY <4>3, <4>4, <4>5
      <4>7. QED
        BY <4>4, <4>6 DEF PaidOnce
    <3>2. CASE w # author
      <4>1. \A h \in Hashes : <<w, h>> \in Addresses /\ <<w, h>> # address
        BY <3>2 DEF Addresses
      <4>2. Registered(w)' = Registered(w)
        <5> HIDE DEF address, new
        <5> QED
          BY <2>5, <4>1 DEF Registered
      <4>3. funds'[w] = funds[w]
        BY <2>6, <3>2
      <4>4. QED
        BY <1>1, <4>2, <4>3 DEF PaidOnce
    <3>3. QED
      BY <3>1, <3>2
  <2>10. ASSUME NEW j \in Attempts, tx'[j] = "landed"
         PROVE  LET record == accounts'[<<clicks'[j].author, clicks'[j].content>>]
                IN record # NoArticle /\ record.arweave_id = ArweaveId[j]
    <3> DEFINE place == <<clicks[j].author, clicks[j].content>>
    <3>1. CASE j = i
      <4>1. place = address
        BY <3>1
      <4>2. accounts'[place] # NoArticle /\ accounts'[place].arweave_id = ArweaveId[j]
        <5> HIDE DEF place, address, new
        <5> QED
          BY <2>2, <2>5, <3>1, <4>1
      <4>3. QED
        BY <1>2, <4>2
    <3>2. CASE j # i
      <4>1. tx[j] = "landed" /\ j \in DOMAIN clicks
        BY <1>1, <1>7, <2>10, <3>2 DEF JobOK
      <4>2. place \in Addresses
        BY <1>1, <4>1, PublishingAssumption DEF PublishTypeOK, Click, Addresses
      <4>3. accounts[place] # NoArticle /\ accounts[place].arweave_id = ArweaveId[j]
        BY <1>1, <4>1 DEF LandedIsRegistered
      <4>4. accounts'[place] = accounts[place]
        <5> HIDE DEF place, address, new
        <5> QED
          BY <2>3, <2>5, <4>2, <4>3
      <4>5. QED
        BY <1>2, <4>3, <4>4
    <3>3. QED
      BY <3>1, <3>2
  <2>11. LandedIsRegistered'
    BY <2>10 DEF LandedIsRegistered
  <2>12. QED
    BY <1>5, <1>6, <2>7, <2>8, <2>9, <2>11 DEF IInv, ServerInv, ChainInv
<1>10. QED
  BY <1>1, <1>8, <1>9 DEF Cluster, Execute, Expire, PublishTypeOK

-----------------------------------------------------------------------------

LEMMA IInvStep == IInv /\ [PublishNext]_publishVars => IInv'
<1> SUFFICES ASSUME IInv, [PublishNext]_publishVars
             PROVE  IInv'
  OBVIOUS
<1>1. ASSUME NEW t \in Tabs, Publish(t)
      PROVE  IInv'
  BY <1>1, PublishInv
<1>2. ASSUME NEW t \in Tabs, SignMessage(t)
      PROVE  IInv'
  BY <1>2, SignInv
<1>3. ASSUME NEW t \in Tabs, SendTransaction(t) \/ Browser(t) \/ Reload(t)
      PROVE  IInv'
  BY <1>3, BrowserInv
<1>4. ASSUME NEW i \in Attempts, Handler(i)
      PROVE  IInv'
  BY <1>4, HandlerInv
<1>5. ASSUME NEW i \in Attempts, Cluster(i)
      PROVE  IInv'
  BY <1>5, ClusterInv
<1>6. CASE UNCHANGED publishVars
  <2>1. /\ modal' = modal /\ clicks' = clicks /\ tx' = tx /\ job' = job
        /\ stored' = stored /\ rows' = rows /\ secrets' = secrets
        /\ accounts' = accounts /\ clock' = clock /\ signer' = signer /\ funds' = funds
    BY <1>6 DEF publishVars, chain, server
  <2>2. PublishTypeOK' /\ LandedIsRegistered' /\ ChainInv'
    BY <2>1, ChainInvKept
    DEF IInv, ServerInv, PublishTypeOK, ProgramTypeOK, LandedIsRegistered, chain
  <2>3. (\A i \in Attempts : JobOK(i)') /\ \A t \in Tabs : ModalOK(t)'
    BY <2>1 DEF IInv, ServerInv, JobOK, ModalOK, Backed
  <2>4. QED
    BY <2>2, <2>3 DEF IInv, ServerInv
<1>7. QED
  BY <1>1, <1>2, <1>3, <1>4, <1>5, <1>6 DEF PublishNext

LEMMA IInvHolds == PublishSpec => []IInv
<1>1. QED
  BY InvInit, IInvStep, PTL DEF PublishSpec

\* The state of the modal, the handlers, the three stores and the cluster
\* keeps its types; a key is never stored without its row, nor a row without
\* its upload.
THEOREM PublishTypeCorrect == PublishSpec => []PublishTypeOK
<1>1. IInv => PublishTypeOK
  BY DEF IInv, ServerInv
<1>2. QED
  BY <1>1, IInvHolds, PTL

\* Whatever fails between the three stores, an article on the chain has its
\* upload, its row of the same visibility and, if private, its key.
THEOREM ChainIsBacked == PublishSpec => []RecordIsBacked
<1>1. IInv => RecordIsBacked
  BY DEF IInv, ChainInv
<1>2. QED
  BY <1>1, IInvHolds, PTL

\* A wallet pays once for each article, however many attempts it makes, in
\* however many tabs.
THEOREM PaysOnce == PublishSpec => []RetryPaysOnce
<1>1. IInv => RetryPaysOnce
  BY DEF IInv, ChainInv, PaidOnce, Registered, RetryPaysOnce
<1>2. QED
  BY <1>1, IInvHolds, PTL

\* What a transaction has registered names its own upload for good, whatever is
\* published of the same content afterwards.
THEOREM LandedStays == PublishSpec => []LandedIsRegistered
<1>1. IInv => LandedIsRegistered
  BY DEF IInv
<1>2. QED
  BY <1>1, IInvHolds, PTL

\* What publishing does to the chain is what the program of AuroraProgram can
\* do: its theorems (an account fits its space, a record is permanent) hold of
\* the articles that are published this way.
THEOREM PublishingRunsTheProgram == PublishSpec => ProgramSpec
<1>1. PublishInit => ProgramInit
  BY DEF PublishInit
<1>2. IInv /\ [PublishNext]_publishVars => [ProgramNext]_programVars
  <2> SUFFICES ASSUME IInv, [PublishNext]_publishVars
               PROVE  ProgramNext \/ UNCHANGED programVars
    OBVIOUS
  <2>1. ASSUME NEW t \in Tabs,
               Publish(t) \/ SignMessage(t) \/ SendTransaction(t) \/ Browser(t) \/ Reload(t)
        PROVE  UNCHANGED programVars
    BY <2>1 DEF Publish, SignMessage, SendTransaction, Browser, PrepareReply, PrepareFails,
                LatestBlockhash, Simulate, ConfirmTransaction, ConfirmThrows, Reload,
                chain, programVars
  <2>2. ASSUME NEW i \in Attempts, Handler(i) \/ Expire(i)
        PROVE  UNCHANGED programVars
    BY <2>2 DEF Handler, CheckPayload, Upload, SaveRow, SaveSecret, JobFails, Expire,
                chain, programVars
  <2>3. ASSUME NEW i \in Attempts, Execute(i)
        PROVE  ProgramNext \/ UNCHANGED programVars
    <3>1. PublishTypeOK /\ i \in DOMAIN clicks
      BY <2>3 DEF IInv, ServerInv, JobOK, Execute
    <3>2. clicks[i].author \in Keys /\ Ix(i) \in Instruction
      BY <3>1, IxType DEF Click
    <3>3. CASE publish_article(clicks[i].author, Ix(i))
      BY <3>2, <3>3 DEF ProgramNext
    <3>4. CASE UNCHANGED chain
      BY <3>4 DEF chain, programVars
    <3>5. QED
      BY <2>3, <3>3, <3>4 DEF Execute
  <2>4. CASE UNCHANGED publishVars
    BY <2>4 DEF publishVars, chain, programVars
  <2>5. QED
    BY <2>1, <2>2, <2>3, <2>4 DEF PublishNext, Cluster
<1>3. QED
  BY <1>1, <1>2, IInvHolds, PTL DEF PublishSpec, ProgramSpec

=============================================================================
