------------------------------ MODULE Experience ------------------------------
(***************************************************************************)
(* ExperienceService.submitExperience: a survey of a delivered delivery,    *)
(* stored as one DeliveryRating and one DeliveryFeedback row in one          *)
(* transaction. Every statement is a step; the deliveryId of both tables is *)
(* unique, and an insert waits while another open transaction holds the      *)
(* value. A request may be cut off at any point, its transaction with it.    *)
(***************************************************************************)
EXTENDS Integers

CONSTANTS
    Null,
    Request,        \* submissions, each made at most once
    User, Delivery,
    Owner,          \* the customer of a delivery
    Bodies,         \* what customers send: scores and a comment
    RequestRoles    \* the roles the users act in

VARIABLES
    status,         \* the status of a delivery, as far as a survey tells it apart
    rating, feedback,   \* the committed row of a delivery, or Null
    inserted,       \* the request whose open transaction holds the key, by table
    req             \* what a request asks for, where it is, and its answer

rows == <<rating, feedback>>
vars == <<status, rows, inserted, req>>

-----------------------------------------------------------------------------
ScoreNames == {"driver", "platform", "delivery", "timeliness", "packageHandling", "presentation"}
MIN_RATING == 1
MAX_RATING == 5

\* submitDeliveryExperienceBodySchema: six whole scores; a comment that is left out, or
\* blank once it is trimmed, is none; a long one is refused.
ValidBody(b) ==
    /\ \A n \in ScoreNames : b.scores[n] \in MIN_RATING .. MAX_RATING
    /\ b.comment # "too long"
CommentOf(b) == IF b.comment = "blank" THEN Null ELSE b.comment

Low(score) == score # Null /\ score <= 2
High(score) == score # Null /\ score >= 4

\* deriveFeedbackTagsFromExperienceScores: a matter scored low is an issue, one scored
\* high is a good point, one in the middle or not scored is neither.
IssueTags(s) ==
    (IF Low(s.driver) THEN {"DRIVER_UNPROFESSIONAL"} ELSE {})
    \union (IF Low(s.platform) THEN {"TRACKING_ISSUE", "COMMUNICATION_ISSUE"} ELSE {})
    \union (IF Low(s.timeliness) THEN {"DELIVERY_DELAYED", "DRIVER_LATE"} ELSE {})
    \union (IF Low(s.packageHandling) THEN {"PACKAGE_HANDLING_ISSUE"} ELSE {})

PositiveTags(s) ==
    (IF High(s.driver) THEN {"DRIVER_POLITE", "DRIVER_PROFESSIONAL"} ELSE {})
    \union (IF High(s.platform) THEN {"EASY_BOOKING", "GOOD_COMMUNICATION"} ELSE {})
    \union (IF High(s.timeliness) THEN {"FAST_DELIVERY"} ELSE {})
    \union (IF High(s.packageHandling) THEN {"PACKAGE_HANDLED_WELL"} ELSE {})

\* The rows, none of which is Null, and neither is a request or an answer.
RatingRows == [customer : User, scores : [ScoreNames -> MIN_RATING .. MAX_RATING]]
Tags == {"DRIVER_UNPROFESSIONAL", "TRACKING_ISSUE", "COMMUNICATION_ISSUE", "DELIVERY_DELAYED",
         "DRIVER_LATE", "PACKAGE_HANDLING_ISSUE", "DRIVER_POLITE", "DRIVER_PROFESSIONAL",
         "EASY_BOOKING", "GOOD_COMMUNICATION", "FAST_DELIVERY", "PACKAGE_HANDLED_WELL"}
FeedbackRows == [customer : User, comment : {CommentOf(b) : b \in Bodies},
                 positive : SUBSET Tags, issue : SUBSET Tags]

ExperienceAssumption ==
    /\ \A b \in Bodies : b.scores \in [ScoreNames -> Int]
    /\ Null \notin RatingRows /\ Null \notin FeedbackRows
    /\ Null \notin Request /\ Null # 201

RatingRow(r) == [customer |-> req[r].user, scores |-> req[r].body.scores]
FeedbackRow(r) ==
    [customer |-> req[r].user, comment |-> CommentOf(req[r].body),
     positive |-> PositiveTags(req[r].body.scores), issue |-> IssueTags(req[r].body.scores)]

-----------------------------------------------------------------------------
NoAnswer == 0
Answers == {Null, 201, 400, 403, 404, 409, NoAnswer}
NotMade == [pc |-> "none", user |-> Null, role |-> Null, delivery |-> Null, body |-> Null,
            answer |-> Null]

Init ==
    /\ status = [d \in Delivery |-> "UNDERWAY"]
    /\ rating = [d \in Delivery |-> Null]
    /\ feedback = [d \in Delivery |-> Null]
    /\ inserted = [d \in Delivery |-> [rating |-> Null, feedback |-> Null]]
    /\ req = [r \in Request |-> NotMade]

\* The other components bring the delivery to its end.
Move(d, s) ==
    /\ status[d] = "UNDERWAY"
    /\ status' = [status EXCEPT ![d] = s]
    /\ UNCHANGED <<rows, inserted, req>>

Goto(r, pc) == req' = [req EXCEPT ![r].pc = pc]
Answer(r, a) == req' = [req EXCEPT ![r].pc = "done", ![r].answer = a]

\* The controller and submitExperience up to its first statement: only customers.
Submit(r, u, role, d, b) ==
    /\ req[r].pc = "none"
    /\ req' = [req EXCEPT ![r] =
           IF ~ValidBody(b) THEN [NotMade EXCEPT !.pc = "done", !.answer = 400]
           ELSE [pc |-> IF role = "CUSTOMER" THEN "load" ELSE "done", user |-> u, role |-> role,
                 delivery |-> d, body |-> b, answer |-> IF role = "CUSTOMER" THEN Null ELSE 403]]
    /\ UNCHANGED <<status, rows, inserted>>

\* loadAuthorizedDelivery: a customer finds his own deliveries only.
Load(r) ==
    /\ req[r].pc = "load"
    /\ IF Owner[req[r].delivery] = req[r].user THEN Goto(r, "rated") ELSE Answer(r, 404)
    /\ UNCHANGED <<status, rows, inserted>>

\* findByDeliveryId of the two repositories: what is there already ends the request.
FindRating(r) ==
    /\ req[r].pc = "rated"
    /\ IF rating[req[r].delivery] = Null THEN Goto(r, "feedback") ELSE Answer(r, 409)
    /\ UNCHANGED <<status, rows, inserted>>

FindFeedback(r) ==
    /\ req[r].pc = "feedback"
    /\ IF feedback[req[r].delivery] = Null THEN Goto(r, "allow") ELSE Answer(r, 409)
    /\ UNCHANGED <<status, rows, inserted>>

\* The where clause that opens createExperienceForDeliveredDelivery and
\* createForDeliveredDelivery.
MayRate(r) == Owner[req[r].delivery] = req[r].user /\ status[req[r].delivery] = "DELIVERED"

\* A statement fails: its transaction gives back what it holds, its request is refused.
Free(r) ==
    inserted' = [d \in Delivery |->
        [t \in {"rating", "feedback"} |-> IF inserted[d][t] = r THEN Null ELSE inserted[d][t]]]

Fail(r) == Answer(r, 409) /\ Free(r) /\ UNCHANGED <<status, rows>>

\* createExperienceForDeliveredDelivery and createForDeliveredDelivery: is it allowed?
Allow(r) ==
    /\ req[r].pc = "allow"
    /\ IF ~MayRate(r) THEN Fail(r)
       ELSE Goto(r, IF inserted[req[r].delivery].rating = r THEN "insertFeedback" ELSE "insertRating")
            /\ UNCHANGED <<status, rows, inserted>>

\* Mutated form: a taken key is not an error, and the request goes on to commit.
Insert_Upsert(r, t, table, next) ==
    /\ inserted[req[r].delivery][t] = Null
    /\ Goto(r, next)
    /\ inserted' = [inserted EXCEPT ![req[r].delivery][t] = r]
    /\ UNCHANGED <<status, rows>>

\* Mutated form: the insert is tried again as long as the key is taken.
Insert_Retry(r, t, table, next) ==
    /\ inserted[req[r].delivery][t] = Null /\ table[req[r].delivery] = Null
    /\ Goto(r, next)
    /\ inserted' = [inserted EXCEPT ![req[r].delivery][t] = r]
    /\ UNCHANGED <<status, rows>>

\* create: it waits for an open transaction on the key, and P2002 is a 409.
Insert(r, t, table, next) ==
    /\ inserted[req[r].delivery][t] = Null
    /\ IF table[req[r].delivery] # Null THEN Fail(r)
       ELSE /\ Goto(r, next)
            /\ inserted' = [inserted EXCEPT ![req[r].delivery][t] = r]
            /\ UNCHANGED <<status, rows>>

InsertRating(r) == req[r].pc = "insertRating" /\ Insert(r, "rating", rating, "allow")
InsertFeedback(r) == req[r].pc = "insertFeedback" /\ Insert(r, "feedback", feedback, "commit")

\* Mutated form: the two rows are two transactions, and the rating's comes first.
Commit_Rating(r) ==
    LET d == req[r].delivery
    IN  /\ \/ req[r].pc = "commit" /\ rating[d] # Null
              /\ feedback' = [feedback EXCEPT ![d] = FeedbackRow(r)]
              /\ Answer(r, 201) /\ Free(r) /\ UNCHANGED rating
           \/ req[r].pc = "commit" /\ rating[d] = Null
              /\ rating' = [rating EXCEPT ![d] = RatingRow(r)]
              /\ UNCHANGED <<feedback, req, inserted>>
        /\ UNCHANGED status

\* The transaction commits, and the request answers 201 with its two rows.
Commit(r) ==
    LET d == req[r].delivery
    IN  /\ req[r].pc = "commit"
        /\ rating' = [rating EXCEPT ![d] = RatingRow(r)]
        /\ feedback' = [feedback EXCEPT ![d] = FeedbackRow(r)]
        /\ Answer(r, 201) /\ Free(r)
        /\ UNCHANGED status

Running == {r \in Request : req[r].pc \notin {"none", "done"}}

\* The process or its connection is gone: an open transaction is rolled back.
Cut(r) ==
    /\ r \in Running
    /\ Answer(r, NoAnswer) /\ Free(r)
    /\ UNCHANGED <<status, rows>>

Step(r) ==
    \/ Load(r) \/ FindRating(r) \/ FindFeedback(r) \/ Allow(r)
    \/ InsertRating(r) \/ InsertFeedback(r) \/ Commit(r)

Next ==
    \/ \E d \in Delivery, s \in {"DELIVERED", "CANCELLED"} : Move(d, s)
    \/ \E r \in Request, u \in User, role \in RequestRoles, d \in Delivery, b \in Bodies :
           Submit(r, u, role, d, b)
    \/ \E r \in Request : Step(r) \/ Cut(r)

Spec == Init /\ [][Next]_vars
-----------------------------------------------------------------------------
(* Properties.                                                             *)

\* Type invariant.
TypeOK ==
    /\ \A d \in Delivery :
        /\ status[d] \in {"UNDERWAY", "DELIVERED", "CANCELLED"}
        /\ \A t \in {"rating", "feedback"} : inserted[d][t] \in Request \union {Null}
        /\ rating[d] # Null => rating[d].scores \in [ScoreNames -> MIN_RATING .. MAX_RATING]
    /\ \A r \in Request : req[r].answer \in Answers

\* A delivery has a whole survey or none: its rating and its feedback are there together,
\* from one customer, and the tags are those of the stored scores.
WholeSurvey ==
    \A d \in Delivery :
        /\ rating[d] = Null <=> feedback[d] = Null
        /\ rating[d] # Null =>
            /\ feedback[d].customer = rating[d].customer
            /\ feedback[d].positive = PositiveTags(rating[d].scores)
            /\ feedback[d].issue = IssueTags(rating[d].scores)

\* Of the submissions for a delivery at most one is accepted, and what it sent is stored.
OneSubmission ==
    \A r \in Request : req[r].answer = 201 =>
        /\ rating[req[r].delivery] = RatingRow(r)
        /\ feedback[req[r].delivery] = FeedbackRow(r)
        /\ \A q \in Request \ {r} :
               req[q].answer = 201 => req[q].delivery # req[r].delivery

\* There is a survey of delivered deliveries only, by the customer it was delivered for.
SurveyIsDue ==
    \A d \in Delivery : rating[d] # Null =>
        status[d] = "DELIVERED" /\ rating[d].customer = Owner[d]
-----------------------------------------------------------------------------
(* The inductive invariant of the proofs.                                  *)

Pcs == {"none", "load", "rated", "feedback", "allow", "insertRating", "insertFeedback",
        "commit", "done"}

Shape ==
    /\ status \in [Delivery -> {"UNDERWAY", "DELIVERED", "CANCELLED"}]
    /\ rating \in [Delivery -> RatingRows \cup {Null}]
    /\ feedback \in [Delivery -> FeedbackRows \cup {Null}]
    /\ inserted \in [Delivery -> [rating : Request \cup {Null}, feedback : Request \cup {Null}]]
    /\ req \in [Request -> [pc : Pcs, user : User \cup {Null}, role : RequestRoles \cup {Null},
                            delivery : Delivery \cup {Null}, body : Bodies \cup {Null},
                            answer : Answers]]

\* A request that goes on has a whole survey of a delivery.
Asks(r) ==
    req[r].user \in User /\ req[r].delivery \in Delivery /\ req[r].body \in Bodies
        /\ ValidBody(req[r].body)

\* A request inserts for the customer of a delivered delivery, and its open transaction holds
\* the keys of what it has inserted, for which there is no row.
Knows(r) ==
    /\ req[r].pc \notin {"none", "done"} => Asks(r) /\ req[r].answer = Null
    /\ req[r].pc \in {"insertRating", "insertFeedback", "commit"} => MayRate(r)
    /\ req[r].pc \in {"insertFeedback", "commit"} => inserted[req[r].delivery].rating = r
    /\ req[r].pc = "commit" => inserted[req[r].delivery].feedback = r
    /\ req[r].answer = 201 => req[r].pc = "done" /\ Asks(r)

Holds(d) ==
    /\ inserted[d].rating # Null =>
          /\ req[inserted[d].rating].pc \in {"allow", "insertFeedback", "commit"}
          /\ req[inserted[d].rating].delivery = d
          /\ rating[d] = Null
    /\ inserted[d].feedback # Null =>
          /\ req[inserted[d].feedback].pc = "commit"
          /\ req[inserted[d].feedback].delivery = d
          /\ feedback[d] = Null

IInv ==
    /\ Shape
    /\ \A r \in Request : Knows(r)
    /\ \A d \in Delivery : Holds(d)
    /\ WholeSurvey
    /\ OneSubmission
    /\ SurveyIsDue
=============================================================================
