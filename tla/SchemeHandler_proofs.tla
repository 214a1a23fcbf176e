------------------------ MODULE SchemeHandler_proofs ------------------------
(***************************************************************************)
(* SchemeHandler hands out byte streams, for every response, every way of  *)
(* cutting it into reads and any number of requests at a time.             *)
(***************************************************************************)
EXTENDS SchemeHandler, SequenceTheorems, TLAPS

(* What CEF has of a request is what the handler has got through. *)
ReceivedIsRead(r) ==
  /\ offset_[r] <= Len(data_[r])
  /\ received[r] = SubSeq(data_[r], 1, offset_[r])
  /\ stage[r] = "done" => received[r] = data_[r]

(* What the handler has, and CEF was told to expect, at each stage. *)
StageData(r) ==
  /\ stage[r] # "none" => url[r] \in Urls
  /\ stage[r] \in {"none", "created", "refused"} =>
       data_[r] = <<>> /\ offset_[r] = 0 /\ mime_type_[r] = ""
  /\ stage[r] \in {"answered", "reading", "done"} =>
       data_[r] # <<>> /\ data_[r] = ResponseTo(r)
  /\ stage[r] \in {"reading", "done"} => response_length[r] = Len(data_[r])

TypeFits(r) ==
  /\ mime_type_[r] = "text/html" => stage[r] # "none" /\ data_[r] = PageHtml[url[r]]
  /\ mime_type_[r] = "image/png" => data_[r] = LogoImage

RequestInv(r) == ReceivedIsRead(r) /\ StageData(r) /\ TypeFits(r)

Inv == TypeOK /\ \A r \in Requests : RequestInv(r)

-----------------------------------------------------------------------------

LEMMA NothingRead == \A s \in Seq(Bytes) : SubSeq(s, 1, 0) = <<>> /\ Len(s) \in Nat
<1> TAKE s \in Seq(Bytes)
<1>1. SubSeq(s, 1, 0) = <<>>
  BY SubSeqEmpty
<1>2. Len(s) \in Nat
  BY LenProperties
<1> QED
  BY <1>1, <1>2

LEMMA EmptyIsSeq == <<>> \in Seq(Bytes) /\ Len(<<>>) = 0
  BY EmptySeq

LEMMA InitInv == Init => Inv
<1> SUFFICES ASSUME Init PROVE Inv
  OBVIOUS
<1>1. TypeOK
  BY EmptyIsSeq DEF Init, TypeOK, Stages
<1>2. SubSeq(<<>>, 1, 0) = <<>>
  BY EmptyIsSeq, NothingRead
<1>3. ASSUME NEW r \in Requests
      PROVE  RequestInv(r)
  <2>1. /\ stage[r] = "none" /\ data_[r] = <<>> /\ offset_[r] = 0
        /\ mime_type_[r] = "" /\ received[r] = <<>>
    BY DEF Init
  <2>2. ReceivedIsRead(r)
    <3>1. SubSeq(data_[r], 1, offset_[r]) = received[r]
      BY <1>2, <2>1, Zenon
    <3>2. Len(data_[r]) = 0
      BY <2>1, EmptyIsSeq, Zenon
    <3>3. offset_[r] = 0 /\ stage[r] # "done"
      BY <2>1
    <3>4. offset_[r] <= Len(data_[r])
      BY <3>2, <3>3
    <3> QED
      BY <3>1, <3>3, <3>4 DEF ReceivedIsRead
  <2>3. StageData(r) /\ TypeFits(r)
    BY <2>1 DEF StageData, TypeFits
  <2> QED
    BY <2>2, <2>3 DEF RequestInv
<1> QED
  BY <1>1, <1>3 DEF Inv

(* A step of one request leaves the others as they are. *)
LEMMA OthersKeep ==
  ASSUME Inv, NEW q \in Requests,
         url'[q] = url[q], stage'[q] = stage[q], data_'[q] = data_[q], offset_'[q] = offset_[q],
         mime_type_'[q] = mime_type_[q], response_length'[q] = response_length[q],
         received'[q] = received[q]
  PROVE  RequestInv(q)'
  BY DEF Inv, RequestInv, ReceivedIsRead, StageData, TypeFits, ResponseTo

(* One more read of what is left. *)
LEMMA ReadAdvances ==
  ASSUME NEW data \in Seq(Bytes), NEW offset \in Nat, offset < Len(data),
         NEW n \in Nat, n >= 1
  PROVE  LET size == SmallerOf(n, Len(data) - offset)
             next == SubSeq(data, 1, offset) \o SubSeq(data, offset + 1, offset + size)
         IN /\ size \in Nat /\ size >= 1 /\ offset + size <= Len(data)
            /\ next = SubSeq(data, 1, offset + size)
            /\ next \in Seq(Bytes)
            /\ Len(next) = offset + size
<1> DEFINE size == SmallerOf(n, Len(data) - offset)
<1>1. Len(data) \in Nat
  BY LenProperties
<1>2. size \in Nat /\ size >= 1 /\ offset + size <= Len(data)
  BY <1>1 DEF SmallerOf
<1> HIDE DEF size
<1>3. SubSeq(data, 1, offset) \o SubSeq(data, offset + 1, offset + size)
        = SubSeq(data, 1, offset + size)
  BY <1>1, <1>2, ConcatAdjacentSubSeq
<1>4. \A i \in 1..(offset + size) : data[i] \in Bytes
  BY <1>1, <1>2, ElementOfSeq
<1>5. /\ SubSeq(data, 1, offset + size) \in Seq(Bytes)
      /\ Len(SubSeq(data, 1, offset + size)) = offset + size
  BY <1>2, <1>4, SubSeqProperties
<1> QED
  BY <1>2, <1>3, <1>5 DEF size

LEMMA CreateInv ==
  ASSUME Inv, NEW r \in Requests, NEW u \in Urls, Create(r, u)
  PROVE  Inv'
<1>1. TypeOK'
  BY DEF Create, Inv, TypeOK, Stages
<1>2. RequestInv(r)'
  <2>1. url'[r] = u /\ stage'[r] = "created" /\ stage[r] = "none"
    BY DEF Create, Inv, TypeOK
  <2>2. RequestInv(r) /\ UNCHANGED <<data_, offset_, mime_type_, response_length, received>>
    BY DEF Create, Inv
  <2> QED
    BY <2>1, <2>2 DEF RequestInv, ReceivedIsRead, StageData, TypeFits
<1>3. ASSUME NEW q \in Requests, q # r
      PROVE  RequestInv(q)'
  <2>1. url'[q] = url[q] /\ stage'[q] = stage[q]
    BY <1>3 DEF Create, Inv, TypeOK
  <2> QED
    BY <2>1, OthersKeep DEF Create
<1> QED
  BY <1>1, <1>2, <1>3 DEF Inv

LEMMA ProcessInv ==
  ASSUME Inv, NEW r \in Requests, NEW image_found \in BOOLEAN, ProcessRequest(r, image_found)
  PROVE  Inv'
<1>1. /\ stage[r] = "created" /\ url[r] \in Urls
      /\ data_[r] = <<>> /\ offset_[r] = 0 /\ mime_type_[r] = ""
      /\ received[r] = <<>>
  BY NothingRead, EmptyIsSeq DEF ProcessRequest, Inv, RequestInv, StageData, ReceivedIsRead
<1>2. /\ PageHtml[url[r]] \in Seq(Bytes) /\ PageHtml[url[r]] # <<>>
      /\ LogoImage \in Seq(Bytes) /\ LogoImage # <<>>
  BY <1>1, BodiesAssumption
<1>3. TypeOK'
  <2>1. data_' = data_ \/ \E bytes \in Seq(Bytes) : data_' = [data_ EXCEPT ![r] = bytes]
    BY <1>2 DEF ProcessRequest
  <2>2. data_' \in [Requests -> Seq(Bytes)]
    BY <2>1 DEF Inv, TypeOK
  <2>3. mime_type_' \in [Requests -> {"", "text/html", "image/png"}]
    BY DEF ProcessRequest, Inv, TypeOK
  <2>4. stage' \in [Requests -> Stages]
    BY DEF ProcessRequest, Inv, TypeOK, Stages
  <2> QED
    BY <2>2, <2>3, <2>4 DEF ProcessRequest, Inv, TypeOK
<1>4. UNCHANGED <<url, offset_, response_length, received>>
  BY DEF ProcessRequest
<1>5. RequestInv(r)'
  <2>1. ASSUME NEW bytes \in Seq(Bytes), bytes # <<>>, bytes = ResponseTo(r),
               data_'[r] = bytes, stage'[r] = "answered",
               \/ mime_type_'[r] = "text/html" /\ bytes = PageHtml[url[r]]
               \/ mime_type_'[r] = "image/png" /\ bytes = LogoImage
        PROVE  RequestInv(r)'
    <3>1. ReceivedIsRead(r)'
      <4>1. /\ offset_'[r] = 0 /\ received'[r] = <<>> /\ Len(bytes) \in Nat
            /\ SubSeq(bytes, 1, 0) = <<>> /\ data_'[r] = bytes /\ stage'[r] # "done"
        BY <1>1, <1>4, <2>1, NothingRead
      <4> QED
        BY <4>1 DEF ReceivedIsRead
    <3>2. StageData(r)'
      BY <1>1, <1>4, <2>1 DEF StageData, ResponseTo
    <3>3. TypeFits(r)'
      BY <1>1, <1>4, <2>1 DEF TypeFits
    <3> QED
      BY <3>1, <3>2, <3>3 DEF RequestInv
  <2>2. CASE url[r] \in HandlerUrls
    <3>1. /\ data_'[r] = PageHtml[url[r]] /\ stage'[r] = "answered"
          /\ mime_type_'[r] = "text/html"
      BY <2>2 DEF ProcessRequest, Inv, TypeOK
    <3> QED
      BY <1>2, <2>1, <2>2, <3>1 DEF ResponseTo
  <2>3. CASE url[r] \in LogoUrls \ HandlerUrls /\ image_found
    <3>1. data_'[r] = LogoImage /\ stage'[r] = "answered" /\ mime_type_'[r] = "image/png"
      BY <2>3 DEF ProcessRequest, Inv, TypeOK
    <3> QED
      BY <1>2, <2>1, <2>3, <3>1 DEF ResponseTo
  <2>4. CASE url[r] \notin HandlerUrls /\ (url[r] \in LogoUrls => ~image_found)
    <3>1. stage'[r] = "refused" /\ UNCHANGED <<data_, mime_type_>>
      BY <2>4 DEF ProcessRequest, Inv, TypeOK
    <3>2. RequestInv(r)
      BY DEF Inv
    <3> QED
      BY <1>1, <1>4, <3>1, <3>2 DEF RequestInv, ReceivedIsRead, StageData, TypeFits
  <2> QED
    BY <2>2, <2>3, <2>4
<1>6. ASSUME NEW q \in Requests, q # r
      PROVE  RequestInv(q)'
  <2>1. stage'[q] = stage[q] /\ data_'[q] = data_[q] /\ mime_type_'[q] = mime_type_[q]
    BY <1>6 DEF ProcessRequest, Inv, TypeOK
  <2> QED
    BY <1>4, <2>1, OthersKeep
<1> QED
  BY <1>3, <1>5, <1>6 DEF Inv

LEMMA HeadersInv ==
  ASSUME Inv, NEW r \in Requests, GetResponseHeaders(r)
  PROVE  Inv'
<1>1. data_[r] \in Seq(Bytes) /\ Len(data_[r]) \in Nat
  BY NothingRead DEF Inv, TypeOK
<1>2. TypeOK'
  BY <1>1 DEF GetResponseHeaders, Inv, TypeOK, Stages
<1>3. UNCHANGED <<url, data_, offset_, mime_type_, received>>
  BY DEF GetResponseHeaders
<1>4. RequestInv(r)'
  <2>1. /\ stage[r] = "answered" /\ stage'[r] = "reading"
        /\ response_length'[r] = Len(data_[r])
    BY DEF GetResponseHeaders, Inv, TypeOK
  <2>2. RequestInv(r)
    BY DEF Inv
  <2> QED
    BY <1>3, <2>1, <2>2 DEF RequestInv, ReceivedIsRead, StageData, TypeFits, ResponseTo
<1>5. ASSUME NEW q \in Requests, q # r
      PROVE  RequestInv(q)'
  <2>1. stage'[q] = stage[q] /\ response_length'[q] = response_length[q]
    BY <1>5 DEF GetResponseHeaders, Inv, TypeOK
  <2> QED
    BY <1>3, <2>1, OthersKeep
<1> QED
  BY <1>2, <1>4, <1>5 DEF Inv

(* What ReadResponse does to its request, in terms of the response: the
   handler has now got through its first `now` bytes. *)
ReadTo(r, now) ==
  /\ offset_[r] <= now /\ now <= Len(data_[r])
  /\ offset_' = [offset_ EXCEPT ![r] = now]
  /\ received' = [received EXCEPT ![r] = SubSeq(data_[r], 1, now)]
  /\ SubSeq(data_[r], 1, now) \in Seq(Bytes)
  /\ Len(SubSeq(data_[r], 1, now)) = now
  /\ now = offset_[r] => received[r] = data_[r] /\ stage' = [stage EXCEPT ![r] = "done"]
  /\ \/ UNCHANGED stage
     \/ SubSeq(data_[r], 1, now) = data_[r] /\ stage' = [stage EXCEPT ![r] = "done"]

LEMMA ReadEffect ==
  ASSUME Inv, NEW r \in Requests, NEW n \in 1..MaxRead, ReadResponse(r, n)
  PROVE  /\ stage[r] = "reading"
         /\ UNCHANGED <<url, data_, mime_type_, response_length>>
         /\ \E now \in Nat : ReadTo(r, now)
<1>1. n \in Nat /\ n >= 1 /\ data_[r] \in Seq(Bytes) /\ Len(data_[r]) \in Nat /\ offset_[r] \in Nat
  <2>1. n \in Nat /\ n >= 1
    BY MaxReadAssumption
  <2>2. data_[r] \in Seq(Bytes) /\ offset_[r] \in Nat
    BY DEF Inv, TypeOK
  <2> QED
    BY <2>1, <2>2, NothingRead
<1>2. stage[r] = "reading" /\ UNCHANGED <<url, data_, mime_type_, response_length>>
  BY DEF ReadResponse
<1>3. /\ offset_[r] <= Len(data_[r]) /\ received[r] = SubSeq(data_[r], 1, offset_[r])
      /\ response_length[r] = Len(data_[r])
  BY <1>2 DEF Inv, RequestInv, ReceivedIsRead, StageData
<1>4. SubSeq(data_[r], 1, Len(data_[r])) = data_[r]
  BY <1>1, SubSeqFull
<1>5. received \in [Requests -> Seq(Bytes)] /\ offset_ \in [Requests -> Nat]
  BY DEF Inv, TypeOK
<1>6. CASE offset_[r] < Len(data_[r])
  <2> DEFINE size == SmallerOf(n, Len(data_[r]) - offset_[r])
             next == SubSeq(data_[r], 1, offset_[r])
                       \o SubSeq(data_[r], offset_[r] + 1, offset_[r] + size)
             now == offset_[r] + size
  <2>1. /\ size \in Nat /\ size >= 1 /\ now <= Len(data_[r])
        /\ next = SubSeq(data_[r], 1, now)
        /\ next \in Seq(Bytes)
        /\ Len(next) = now
    BY <1>1, <1>6, ReadAdvances
  <2>2. /\ offset_' = [offset_ EXCEPT ![r] = now]
        /\ received' = [received EXCEPT ![r] = next]
        /\ \/ UNCHANGED stage
           \/ Len(received'[r]) = response_length[r] /\ stage' = [stage EXCEPT ![r] = "done"]
    BY <1>3, <1>6 DEF ReadResponse
  <2>3. received'[r] = next
    BY <1>5, <2>2
  <2> HIDE DEF size, next
  <2>4. now \in Nat /\ offset_[r] < now
    BY <1>1, <2>1
  <2>5. \/ UNCHANGED stage
        \/ SubSeq(data_[r], 1, now) = data_[r] /\ stage' = [stage EXCEPT ![r] = "done"]
    <3>1. CASE now = Len(data_[r])
      BY <1>4, <2>2, <3>1
    <3>2. CASE now # Len(data_[r])
      BY <1>3, <2>1, <2>2, <2>3, <3>2
    <3> QED
      BY <3>1, <3>2
  <2> HIDE DEF now
  <2>6. ReadTo(r, now)
    <3>1. now # offset_[r] /\ offset_[r] <= now
      BY <1>1, <2>4
    <3> QED
      BY <2>1, <2>2, <2>5, <3>1 DEF ReadTo
  <2> QED
    BY <1>2, <2>4, <2>6
<1>7. CASE ~(offset_[r] < Len(data_[r]))
  <2>1. offset_[r] = Len(data_[r]) /\ received[r] = data_[r]
    BY <1>1, <1>3, <1>4, <1>7
  <2>2. UNCHANGED <<offset_, received>> /\ stage' = [stage EXCEPT ![r] = "done"]
    BY <1>7 DEF ReadResponse
  <2>3. /\ offset_' = [offset_ EXCEPT ![r] = offset_[r]]
        /\ received' = [received EXCEPT ![r] = SubSeq(data_[r], 1, offset_[r])]
    BY <1>3, <1>5, <2>2
  <2>4. ReadTo(r, offset_[r])
    BY <1>1, <1>3, <2>1, <2>2, <2>3 DEF ReadTo
  <2> QED
    BY <1>1, <1>2, <2>4
<1> QED
  BY <1>6, <1>7

LEMMA ReadInv ==
  ASSUME Inv, NEW r \in Requests, NEW n \in 1..MaxRead, ReadResponse(r, n)
  PROVE  Inv'
<1>1. stage[r] = "reading" /\ UNCHANGED <<url, data_, mime_type_, response_length>>
  BY ReadEffect
<1>2. PICK now \in Nat : ReadTo(r, now)
  BY ReadEffect
<1>3. TypeOK'
  BY <1>1, <1>2 DEF ReadTo, Inv, TypeOK, Stages
<1>4. RequestInv(r)'
  <2>1. /\ offset_'[r] = now /\ received'[r] = SubSeq(data_[r], 1, now)
        /\ \/ stage'[r] = "reading"
           \/ SubSeq(data_[r], 1, now) = data_[r] /\ stage'[r] = "done"
    BY <1>1, <1>2 DEF ReadTo, Inv, TypeOK
  <2>2. RequestInv(r)
    BY DEF Inv
  <2>3. ReceivedIsRead(r)'
    BY <1>1, <1>2, <2>1 DEF ReadTo, ReceivedIsRead
  <2>4. StageData(r)' /\ TypeFits(r)'
    BY <1>1, <2>1, <2>2 DEF RequestInv, StageData, TypeFits, ResponseTo
  <2> QED
    BY <2>3, <2>4 DEF RequestInv
<1>5. ASSUME NEW q \in Requests, q # r
      PROVE  RequestInv(q)'
  <2>1. stage'[q] = stage[q] /\ offset_'[q] = offset_[q] /\ received'[q] = received[q]
    BY <1>2, <1>5 DEF ReadTo, Inv, TypeOK
  <2> QED
    BY <1>1, <2>1, OthersKeep
<1> QED
  BY <1>3, <1>4, <1>5 DEF Inv

LEMMA CancelInv ==
  ASSUME Inv, NEW r \in Requests, Cancel(r)
  PROVE  Inv'
<1>1. TypeOK'
  BY DEF Cancel, Inv, TypeOK, Stages
<1>2. UNCHANGED <<url, data_, offset_, mime_type_, response_length, received>>
  BY DEF Cancel
<1>3. RequestInv(r)'
  <2>1. stage[r] # "none" /\ stage'[r] = "cancelled"
    BY DEF Cancel, Open, Inv, TypeOK
  <2>2. RequestInv(r)
    BY DEF Inv
  <2> QED
    BY <1>2, <2>1, <2>2 DEF RequestInv, ReceivedIsRead, StageData, TypeFits
<1>4. ASSUME NEW q \in Requests, q # r
      PROVE  RequestInv(q)'
  <2>1. stage'[q] = stage[q]
    BY <1>4 DEF Cancel, Inv, TypeOK
  <2> QED
    BY <1>2, <2>1, OthersKeep
<1> QED
  BY <1>1, <1>3, <1>4 DEF Inv

LEMMA StepInv == Inv /\ [Next]_vars => Inv'
<1> SUFFICES ASSUME Inv, [Next]_vars PROVE Inv'
  OBVIOUS
<1>1. CASE UNCHANGED vars
  <2>1. TypeOK'
    BY <1>1 DEF vars, Inv, TypeOK
  <2> QED
    BY <1>1, <2>1, OthersKeep DEF vars, Inv
<1>2. CASE Next
  BY <1>2, CreateInv, ProcessInv, HeadersInv, ReadInv, CancelInv DEF Next, RequestStep
<1> QED
  BY <1>1, <1>2

(* The inductive invariant holds: what was read of a request is the beginning of the
   body its stage says. *)
THEOREM SchemeInvariance == Spec => []Inv
<1> QED
  BY InitInv, StepInv, PTL DEF Spec

(* A finished request has exactly its own response (ReadResponse). *)
THEOREM ResponsesAreWhole == Spec => []DoneIsWhole
<1>1. Inv => DoneIsWhole
  <2> SUFFICES ASSUME Inv, NEW r \in Requests, stage[r] = "done"
               PROVE  received[r] = ResponseTo(r) /\ Len(received[r]) = response_length[r]
    BY DEF DoneIsWhole
  <2> QED
    BY DEF Inv, RequestInv, ReceivedIsRead, StageData
<1> QED
  BY <1>1, SchemeInvariance, PTL

(* The mime type a handler announces is that of the bytes it holds. *)
THEOREM TypesFit == Spec => []TypeFitsBytes
<1>1. Inv => TypeFitsBytes
  BY DEF Inv, RequestInv, TypeFits, TypeFitsBytes
<1> QED
  BY <1>1, SchemeInvariance, PTL

-----------------------------------------------------------------------------
(* The byte streams.                                                        *)

(* What is read of a response is a prefix of what is read of it later. *)
LEMMA PrefixesGrow ==
  ASSUME NEW data \in Seq(Bytes), NEW m \in Nat, NEW n \in Nat, m <= n, n <= Len(data)
  PROVE  IsPrefix(SubSeq(data, 1, m), SubSeq(data, 1, n))
<1>1. Len(data) \in Nat /\ \A i \in 1..Len(data) : data[i] \in Bytes
  BY LenProperties, ElementOfSeq
<1>2. \A k \in 0..n : /\ SubSeq(data, 1, k) \in Seq(Bytes)
                      /\ Len(SubSeq(data, 1, k)) = k
  <2> TAKE k \in 0..n
  <2>1. \A i \in 1..k : data[i] \in Bytes
    BY <1>1
  <2> QED
    BY <2>1, SubSeqProperties
<1>3. SubSeq(SubSeq(data, 1, m), 1, m) = SubSeq(data, 1, m)
  BY <1>2, SubSeqFull
<1>4. SubSeq(SubSeq(data, 1, n), 1, m) = SubSeq(data, 1, m)
  <2>1. CASE m = 0
    BY <2>1, <1>2, NothingRead
  <2>2. CASE m # 0
    BY <1>1, <2>2, SubSeqOfSubSeq
  <2> QED
    BY <2>1, <2>2
<1> QED
  BY <1>2, <1>3, <1>4 DEF IsPrefix

outcomes == [r \in Requests |-> Outcome(r)]

(* A request that stays open, and one that ends. *)
LEMMA OutcomeChanges ==
  ASSUME Inv, NEW r \in Requests, NEW s \in Stages, stage' = [stage EXCEPT ![r] = s], Open(r)
  PROVE  /\ Outcome(r) = "open"
         /\ s \in {"created", "answered", "reading"} => outcomes' = outcomes
         /\ s = "done" => outcomes' = [outcomes EXCEPT ![r] = "complete"]
         /\ s \in {"refused", "cancelled"} => outcomes' = [outcomes EXCEPT ![r] = "dropped"]
<1>1. stage \in [Requests -> Stages] /\ stage'[r] = s
  BY DEF Inv, TypeOK
<1>2. \A q \in Requests : q # r => Outcome(q)' = Outcome(q)
  BY <1>1 DEF Outcome
<1>3. Outcome(r) = "open"
  BY DEF Outcome, Open
<1>4. /\ s \in {"created", "answered", "reading"} => Outcome(r)' = "open"
      /\ s = "done" => Outcome(r)' = "complete"
      /\ s \in {"refused", "cancelled"} => Outcome(r)' = "dropped"
  BY <1>1 DEF Outcome
<1> QED
  BY <1>2, <1>3, <1>4 DEF outcomes

LEMMA StepStream ==
  ASSUME Inv, [Next]_vars
  PROVE  [Stream!StreamNext]_(Stream!streamVars)
<1>0. /\ data_ \in [Requests -> Seq(Bytes)] /\ received \in [Requests -> Seq(Bytes)]
      /\ stage \in [Requests -> Stages]
  BY DEF Inv, TypeOK
<1>s. ASSUME UNCHANGED <<data_, received>>, outcomes' = outcomes
      PROVE  UNCHANGED Stream!streamVars
  BY <1>s DEF Stream!streamVars, outcomes
<1>d. ASSUME NEW r \in Requests, Open(r), UNCHANGED <<data_, received>>,
             NEW s \in {"refused", "cancelled"}, stage' = [stage EXCEPT ![r] = s]
      PROVE  Stream!StreamNext
  <2>1. Outcome(r) = "open" /\ outcomes' = [outcomes EXCEPT ![r] = "dropped"]
    BY <1>d, OutcomeChanges DEF Stages
  <2>2. outcomes[r] = "open"
    BY <2>1 DEF outcomes
  <2> QED
    BY <1>d, <2>1, <2>2 DEF Stream!StreamNext, Stream!Drop, outcomes
<1>1. ASSUME NEW r \in Requests, NEW u \in Urls, Create(r, u)
      PROVE  UNCHANGED Stream!streamVars
  <2>1. stage[r] = "none" /\ stage' = [stage EXCEPT ![r] = "created"]
    BY <1>1 DEF Create
  <2>2. \A q \in Requests : Outcome(q)' = Outcome(q)
    BY <1>0, <2>1 DEF Outcome
  <2>3. outcomes' = outcomes
    BY <2>2 DEF outcomes
  <2> QED
    BY <1>1, <1>s, <2>3 DEF Create
<1>2. ASSUME NEW r \in Requests, NEW image_found \in BOOLEAN, ProcessRequest(r, image_found)
      PROVE  Stream!StreamNext
  <2>1. Open(r) /\ url[r] \in Urls /\ data_[r] = <<>> /\ UNCHANGED received
    BY <1>2 DEF ProcessRequest, Open, Inv, RequestInv, StageData
  <2>2. ASSUME NEW bytes, bytes # <<>>, data_' = [data_ EXCEPT ![r] = bytes],
               stage' = [stage EXCEPT ![r] = "answered"]
        PROVE  Stream!StreamNext
    <3>1. Outcome(r) = "open" /\ outcomes' = outcomes
      BY <2>1, <2>2, OutcomeChanges DEF Stages
    <3>2. outcomes[r] = "open"
      BY <3>1 DEF outcomes
    <3>3. data_'[r] = bytes /\ data_' = [data_ EXCEPT ![r] = data_'[r]]
      BY <1>0, <2>2
    <3> QED
      BY <2>1, <2>2, <3>1, <3>2, <3>3 DEF Stream!StreamNext, Stream!Settle, outcomes
  <2>3. CASE url[r] \in HandlerUrls
    <3>1. PageHtml[url[r]] # <<>>
      BY <2>1, BodiesAssumption
    <3> QED
      BY <1>2, <2>2, <2>3, <3>1 DEF ProcessRequest
  <2>4. CASE url[r] \in LogoUrls \ HandlerUrls /\ image_found
    <3>1. LogoImage # <<>>
      BY BodiesAssumption
    <3> QED
      BY <1>2, <2>2, <2>4, <3>1 DEF ProcessRequest
  <2>5. CASE url[r] \notin HandlerUrls /\ (url[r] \in LogoUrls => ~image_found)
    BY <1>2, <1>d, <2>1, <2>5 DEF ProcessRequest
  <2> QED
    BY <2>3, <2>4, <2>5
<1>3. ASSUME NEW r \in Requests, GetResponseHeaders(r)
      PROVE  UNCHANGED Stream!streamVars
  <2>1. Open(r) /\ stage' = [stage EXCEPT ![r] = "reading"]
    BY <1>3 DEF GetResponseHeaders, Open
  <2>2. outcomes' = outcomes
    BY <2>1, OutcomeChanges DEF Stages
  <2> QED
    BY <1>3, <1>s, <2>2 DEF GetResponseHeaders
<1>4. ASSUME NEW r \in Requests, NEW n \in 1..MaxRead, ReadResponse(r, n)
      PROVE  Stream!StreamNext
  <2>1. stage[r] = "reading" /\ UNCHANGED data_ /\ Open(r)
    BY <1>4, ReadEffect DEF Open
  <2>2. PICK now \in Nat : ReadTo(r, now)
    BY <1>4, ReadEffect
  <2>3. /\ data_[r] \in Seq(Bytes) /\ offset_[r] \in Nat /\ data_[r] # <<>>
        /\ received[r] = SubSeq(data_[r], 1, offset_[r])
    BY <2>1 DEF Inv, TypeOK, RequestInv, ReceivedIsRead, StageData
  <2>4. /\ Outcome(r) = "open"
        /\ stage' = [stage EXCEPT ![r] = "done"] => outcomes' = [outcomes EXCEPT ![r] = "complete"]
    <3>1. CASE stage' = [stage EXCEPT ![r] = "done"]
      BY <2>1, <3>1, OutcomeChanges DEF Stages
    <3>2. Outcome(r) = "open"
      BY <2>1 DEF Outcome
    <3> QED
      BY <3>1, <3>2
  <2>5. outcomes[r] = "open" /\ (UNCHANGED stage => outcomes' = outcomes)
    BY <2>4 DEF outcomes, Outcome
  <2>6. CASE now = offset_[r]
    <3>1. received[r] = data_[r] /\ outcomes' = [outcomes EXCEPT ![r] = "complete"]
      BY <2>2, <2>4, <2>6 DEF ReadTo
    <3>2. UNCHANGED received
      BY <1>0, <2>2, <2>3, <2>6 DEF ReadTo
    <3> QED
      BY <2>1, <2>3, <2>5, <3>1, <3>2 DEF Stream!StreamNext, Stream!Complete, outcomes
  <2>7. CASE now # offset_[r]
    <3>1. received'[r] = SubSeq(data_[r], 1, now) /\ received' = [received EXCEPT ![r] = received'[r]]
      BY <1>0, <2>2 DEF ReadTo
    <3>2. now <= Len(data_[r]) /\ offset_[r] <= now /\ Len(data_[r]) \in Nat
      BY <2>2, <2>3, NothingRead DEF ReadTo
    <3>3. IsPrefix(received[r], received'[r])
      BY <2>3, <3>1, <3>2, PrefixesGrow
    <3>4. received[r] # received'[r]
      <4>1. Len(received'[r]) = now
        BY <2>2, <3>1 DEF ReadTo
      <4>2. Len(received[r]) = offset_[r]
        <5>1. \A i \in 1..offset_[r] : data_[r][i] \in Bytes
          BY <2>3, <3>2, ElementOfSeq
        <5> QED
          BY <2>3, <5>1, SubSeqProperties
      <4> QED
        BY <2>7, <4>1, <4>2
    <3>5. IsPrefix(received'[r], data_[r])
      <4>1. IsPrefix(SubSeq(data_[r], 1, now), SubSeq(data_[r], 1, Len(data_[r])))
        BY <2>3, <3>2, PrefixesGrow
      <4>2. SubSeq(data_[r], 1, Len(data_[r])) = data_[r]
        BY <2>3, SubSeqFull
      <4> QED
        BY <3>1, <4>1, <4>2
    <3>6. \/ outcomes' = outcomes
          \/ received'[r] = data_[r] /\ outcomes' = [outcomes EXCEPT ![r] = "complete"]
      BY <2>2, <2>4, <2>5, <3>1 DEF ReadTo
    <3>7. Stream!Deliver(r)
      <4>1. Stream!IsStrictPrefix(received[r], received'[r])
        BY <3>3, <3>4 DEF Stream!IsStrictPrefix, Stream!IsPrefix, IsPrefix
      <4>2. Stream!IsPrefix(received'[r], data_[r])
        BY <3>5 DEF Stream!IsPrefix, IsPrefix
      <4> QED
        BY <2>1, <3>1, <3>6, <4>1, <4>2, Zenon DEF Stream!Deliver, outcomes
    <3> QED
      BY <2>5, <3>7, Zenon DEF Stream!StreamNext, outcomes
  <2> QED
    BY <2>6, <2>7
<1>5. ASSUME NEW r \in Requests, Cancel(r)
      PROVE  Stream!StreamNext
  BY <1>5, <1>d DEF Cancel
<1>6. CASE UNCHANGED vars
  <2>1. outcomes' = outcomes
    BY <1>6 DEF vars, outcomes, Outcome
  <2> QED
    BY <1>6, <1>s, <2>1 DEF vars
<1> QED
  BY <1>1, <1>2, <1>3, <1>4, <1>5, <1>6 DEF Next, RequestStep

(* Whatever CEF reads, cancels and interleaves, each request is a stream of
   its own that completes only when whole. *)
THEOREM RefinesStream == Spec => ImplementsStream
<1>1. Init => Stream!StreamInit
  <2> SUFFICES ASSUME Init PROVE Stream!StreamInit
    OBVIOUS
  <2>1. outcomes = [r \in Requests |-> "open"]
    BY DEF Init, outcomes, Outcome
  <2> QED
    BY <2>1 DEF Init, Stream!StreamInit, outcomes
<1>2. Inv /\ [Next]_vars => [Stream!StreamNext]_(Stream!streamVars)
  BY StepStream
<1> QED
  BY <1>1, <1>2, SchemeInvariance, PTL DEF Spec, ImplementsStream, Stream!StreamSpec
-----------------------------------------------------------------------------
(* Why the requests end: what every call uses up.                           *)

(* How many stages a request has before it at most ... *)
CallsLeft(r) ==
  CASE stage[r] = "none" -> 4
    [] stage[r] = "created" -> 3
    [] stage[r] = "answered" -> 2
    [] stage[r] = "reading" -> 1
    [] OTHER -> 0

(* ... and how many bytes are still to be read of what the handler holds. *)
BytesLeft(r) == Len(data_[r]) - offset_[r]

(* The call r is served with takes it to a later stage, or leaves it with
   fewer bytes to read. *)
GetsFurther(r) ==
  \/ CallsLeft(r)' < CallsLeft(r)
  \/ CallsLeft(r)' = CallsLeft(r) /\ BytesLeft(r)' < BytesLeft(r)

CallsGetFurther ==
  [][\A r \in Requests :
       /\ RequestStep(r) => GetsFurther(r)
       /\ ~GetsFurther(r) => CallsLeft(r)' = CallsLeft(r) /\ BytesLeft(r)' = BytesLeft(r)]_vars

LEMMA BytesLeftInNat == ASSUME Inv, NEW r \in Requests PROVE BytesLeft(r) \in Nat
<1>1. /\ data_[r] \in Seq(Bytes) /\ offset_[r] \in Nat /\ Len(data_[r]) \in Nat
      /\ offset_[r] <= Len(data_[r])
  BY NothingRead DEF Inv, TypeOK, RequestInv, ReceivedIsRead
<1> QED BY <1>1 DEF BytesLeft

(* A read that leaves the request open has handed out a byte at least. *)
LEMMA ReadGetsFurther ==
  ASSUME Inv, NEW r \in Requests, NEW n \in 1..MaxRead, ReadResponse(r, n)
  PROVE  GetsFurther(r)
<1>1. stage[r] = "reading" /\ UNCHANGED data_ /\ stage \in [Requests -> Stages]
  BY ReadEffect DEF Inv, TypeOK
<1>2. PICK now \in Nat : ReadTo(r, now)
  BY ReadEffect
<1>3. CASE stage' = [stage EXCEPT ![r] = "done"]
  BY <1>1, <1>3 DEF GetsFurther, CallsLeft
<1>4. CASE UNCHANGED stage
  <2>1. stage' # [stage EXCEPT ![r] = "done"]
    BY <1>1, <1>4
  <2>2. now # offset_[r] /\ offset_[r] <= now /\ offset_'[r] = now
    BY <1>2, <2>1 DEF ReadTo, Inv, TypeOK
  <2>3. Len(data_[r]) \in Nat /\ offset_[r] \in Nat
    BY NothingRead DEF Inv, TypeOK
  <2>4. BytesLeft(r)' < BytesLeft(r)
    BY <1>1, <2>2, <2>3 DEF BytesLeft
  <2> QED BY <1>4, <2>4 DEF GetsFurther, CallsLeft
<1> QED BY <1>2, <1>3, <1>4 DEF ReadTo

LEMMA StepGetsFurther ==
  ASSUME Inv, NEW r \in Requests, RequestStep(r)
  PROVE  GetsFurther(r)
<1>1. stage \in [Requests -> Stages]
  BY DEF Inv, TypeOK
<1>2. ASSUME NEW u \in Urls, Create(r, u) PROVE GetsFurther(r)
  BY <1>1, <1>2 DEF Create, GetsFurther, CallsLeft
<1>3. ASSUME NEW image_found \in BOOLEAN, ProcessRequest(r, image_found) PROVE GetsFurther(r)
  BY <1>1, <1>3 DEF ProcessRequest, GetsFurther, CallsLeft
<1>4. ASSUME GetResponseHeaders(r) PROVE GetsFurther(r)
  BY <1>1, <1>4 DEF GetResponseHeaders, GetsFurther, CallsLeft
<1>5. ASSUME Cancel(r) PROVE GetsFurther(r)
  BY <1>1, <1>5 DEF Cancel, Open, GetsFurther, CallsLeft
<1> QED BY <1>2, <1>3, <1>4, <1>5, ReadGetsFurther DEF RequestStep

(* A call for one request touches the stage, the data and the offset of no
   other. *)
LEMMA OthersStay ==
  ASSUME Inv, NEW r \in Requests, RequestStep(r), NEW q \in Requests, q # r
  PROVE  CallsLeft(q)' = CallsLeft(q) /\ BytesLeft(q)' = BytesLeft(q)
<1>1. TypeOK
  BY DEF Inv
<1> DEFINE Same == stage'[q] = stage[q] /\ data_'[q] = data_[q] /\ offset_'[q] = offset_[q]
<1>2. Same
  <2>1. ASSUME NEW u \in Urls, Create(r, u) PROVE Same
    BY <1>1, <2>1 DEF Create, TypeOK
  <2>2. ASSUME NEW image_found \in BOOLEAN, ProcessRequest(r, image_found) PROVE Same
    BY <1>1, <2>2 DEF ProcessRequest, TypeOK
  <2>3. ASSUME GetResponseHeaders(r) \/ Cancel(r) PROVE Same
    BY <1>1, <2>3 DEF GetResponseHeaders, Cancel, TypeOK
  <2>4. ASSUME NEW n \in 1..MaxRead, ReadResponse(r, n) PROVE Same
    <3>1. PICK now \in Nat : ReadTo(r, now)
      BY <2>4, ReadEffect
    <3>2. UNCHANGED data_
      BY <2>4, ReadEffect
    <3> QED BY <1>1, <3>1, <3>2 DEF ReadTo, TypeOK
  <2> QED BY <2>1, <2>2, <2>3, <2>4 DEF RequestStep
<1> QED BY <1>2 DEF CallsLeft, BytesLeft

(* Every call of a handler uses up a stage of its request or a byte of its
   response, and no other request gives any back: requests cannot go on for
   ever, whatever blocks CEF reads.  This is what RequestsEnd rests on, beside
   the fairness of the calls. *)
THEOREM RequestsRunOut == Spec => CallsGetFurther /\ [](\A r \in Requests : BytesLeft(r) \in Nat)
<1>1. Inv => \A r \in Requests : BytesLeft(r) \in Nat
  BY BytesLeftInNat
<1>2. ASSUME Inv, [Next]_vars, NEW r \in Requests
      PROVE  ~GetsFurther(r) => CallsLeft(r)' = CallsLeft(r) /\ BytesLeft(r)' = BytesLeft(r)
  <2>1. CASE UNCHANGED vars
    <3>1. stage' = stage /\ data_' = data_ /\ offset_' = offset_
      BY <2>1 DEF vars
    <3>2. CallsLeft(r)' = CallsLeft(r) /\ BytesLeft(r)' = BytesLeft(r)
      BY <3>1 DEF CallsLeft, BytesLeft
    <3> QED BY <3>2, Zenon
  <2>2. ASSUME NEW q \in Requests, RequestStep(q)
        PROVE  GetsFurther(r) \/ (CallsLeft(r)' = CallsLeft(r) /\ BytesLeft(r)' = BytesLeft(r))
    BY <1>2, <2>2, StepGetsFurther, OthersStay, Zenon
  <2> QED BY <1>2, <2>1, <2>2, Zenon DEF Next
<1>3. Inv /\ [Next]_vars =>
        [\A r \in Requests :
           /\ RequestStep(r) => GetsFurther(r)
           /\ ~GetsFurther(r) => CallsLeft(r)' = CallsLeft(r) /\ BytesLeft(r)' = BytesLeft(r)]_vars
  BY <1>2, StepGetsFurther
<1> QED
  BY <1>1, <1>3, SchemeInvariance, PTL DEF Spec, CallsGetFurther
=============================================================================
