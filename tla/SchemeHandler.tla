--------------------------- MODULE SchemeHandler ---------------------------
(***************************************************************************)
(* ClientSchemeHandler and its factory (customer_scheme.cc): answers to    *)
(* requests for live://tests, one handler to each request, read by CEF     *)
(* piece by piece on its IO thread.  Several requests are under way at a   *)
(* time (the page asks for its image), and CEF chooses how much it reads   *)
(* and when it cancels.                                                    *)
(***************************************************************************)
EXTENDS Integers, SequencesExt

CONSTANTS
  Requests,     \* the requests of one behaviour (a bound)
  Urls,         \* what they ask for
  HandlerUrls,  \* the addresses that contain "handler.html"
  LogoUrls,     \* the addresses that contain "logo.png"
  Bytes,        \* what a response consists of
  PageHtml,     \* for an address, the page built around the request's dump
  LogoImage,    \* the bytes of the image resource
  MaxRead,      \* CEF reads at most this many bytes at a time (a bound)
  NULL

ASSUME UrlsNotNull == NULL \notin Urls
ASSUME BodiesAssumption ==
  /\ \A u \in Urls : PageHtml[u] \in Seq(Bytes) /\ PageHtml[u] # <<>>
  /\ LogoImage \in Seq(Bytes) /\ LogoImage # <<>>
ASSUME MaxReadAssumption == MaxRead \in Nat \ {0}

VARIABLES
  url,              \* what each request asks for, NULL before it is made
  stage,            \* CEF: how far the request is
  data_,            \* ClientSchemeHandler::data_
  offset_,          \* ClientSchemeHandler::offset_
  mime_type_,       \* ClientSchemeHandler::mime_type_
  response_length,  \* CEF: the length GetResponseHeaders announced
  received          \* CEF: the bytes ReadResponse handed out

vars == <<url, stage, data_, offset_, mime_type_, response_length, received>>

Stages == {"none", "created", "answered", "reading", "done", "refused", "cancelled"}

(* The requests CEF still deals with. *)
Open(r) == stage[r] \in {"created", "answered", "reading"}

TypeOK ==
  /\ url \in [Requests -> Urls \cup {NULL}]
  /\ stage \in [Requests -> Stages]
  /\ data_ \in [Requests -> Seq(Bytes)]
  /\ offset_ \in [Requests -> Nat]
  /\ mime_type_ \in [Requests -> {"", "text/html", "image/png"}]
  /\ response_length \in [Requests -> Nat]
  /\ received \in [Requests -> Seq(Bytes)]

Init ==
  /\ url = [r \in Requests |-> NULL]
  /\ stage = [r \in Requests |-> "none"]
  /\ data_ = [r \in Requests |-> <<>>]
  /\ offset_ = [r \in Requests |-> 0]
  /\ mime_type_ = [r \in Requests |-> ""]
  /\ response_length = [r \in Requests |-> 0]
  /\ received = [r \in Requests |-> <<>>]

(* ClientSchemeHandlerFactory::Create: a handler of its own. *)
Create(r, u) ==
  /\ stage[r] = "none"
  /\ stage' = [stage EXCEPT ![r] = "created"]
  /\ url' = [url EXCEPT ![r] = u]
  /\ UNCHANGED <<data_, offset_, mime_type_, response_length, received>>

ProcessRequest_TypeFromLogo(r, image_found) ==
  LET is_page == url[r] \in HandlerUrls
      is_logo == url[r] \in LogoUrls
  IN /\ stage[r] = "created"
     /\ IF is_page \/ (is_logo /\ image_found)
        THEN /\ data_' = [data_ EXCEPT ![r] = IF is_page THEN PageHtml[url[r]] ELSE LogoImage]
             /\ mime_type_' = [mime_type_ EXCEPT ![r] = IF is_logo THEN "image/png" ELSE "text/html"]
             /\ stage' = [stage EXCEPT ![r] = "answered"]
        ELSE /\ stage' = [stage EXCEPT ![r] = "refused"]
             /\ UNCHANGED <<data_, mime_type_>>
     /\ UNCHANGED <<url, offset_, response_length, received>>

ProcessRequest_NeverRefuses(r, image_found) ==
  /\ stage[r] = "created"
  /\ url[r] \in HandlerUrls \/ (url[r] \in LogoUrls /\ image_found)
  /\ data_' = [data_ EXCEPT ![r] = IF url[r] \in HandlerUrls THEN PageHtml[url[r]] ELSE LogoImage]
  /\ mime_type_' = [mime_type_ EXCEPT ![r] = IF url[r] \in HandlerUrls THEN "text/html" ELSE "image/png"]
  /\ stage' = [stage EXCEPT ![r] = "answered"]
  /\ UNCHANGED <<url, offset_, response_length, received>>

(* ProcessRequest: the page, the image, or no answer.  Whether the image is
   among the resources of the executable is up to its build. *)
ProcessRequest(r, image_found) ==
  /\ stage[r] = "created"
  /\ \/ /\ url[r] \in HandlerUrls
        /\ data_' = [data_ EXCEPT ![r] = PageHtml[url[r]]]
        /\ mime_type_' = [mime_type_ EXCEPT ![r] = "text/html"]
        /\ stage' = [stage EXCEPT ![r] = "answered"]
     \/ /\ url[r] \in LogoUrls \ HandlerUrls /\ image_found
        /\ data_' = [data_ EXCEPT ![r] = LogoImage]
        /\ mime_type_' = [mime_type_ EXCEPT ![r] = "image/png"]
        /\ stage' = [stage EXCEPT ![r] = "answered"]
     \/ /\ url[r] \notin HandlerUrls
        /\ url[r] \in LogoUrls => ~image_found
        /\ stage' = [stage EXCEPT ![r] = "refused"]
        /\ UNCHANGED <<data_, mime_type_>>
  /\ UNCHANGED <<url, offset_, response_length, received>>

GetResponseHeaders(r) ==
  /\ stage[r] = "answered"
  /\ stage' = [stage EXCEPT ![r] = "reading"]
  /\ response_length' = [response_length EXCEPT ![r] = Len(data_[r])]
  /\ UNCHANGED <<url, data_, offset_, mime_type_, received>>

SmallerOf(m, n) == IF m <= n THEN m ELSE n

ReadResponse_WholeBlocksOnly(r, bytes_to_read) ==
  LET has_data == offset_[r] + bytes_to_read <= Len(data_[r])
      block == SubSeq(data_[r], offset_[r] + 1, offset_[r] + bytes_to_read)
  IN /\ stage[r] = "reading"
     /\ IF has_data
        THEN /\ offset_' = [offset_ EXCEPT ![r] = @ + bytes_to_read]
             /\ received' = [received EXCEPT ![r] = @ \o block]
             /\ UNCHANGED stage
        ELSE /\ stage' = [stage EXCEPT ![r] = "done"]
             /\ UNCHANGED <<offset_, received>>
     /\ UNCHANGED <<url, data_, mime_type_, response_length>>

ReadResponse_FromTheStart(r, bytes_to_read) ==
  LET transfer_size == SmallerOf(bytes_to_read, Len(data_[r]) - offset_[r])
      has_data == offset_[r] < Len(data_[r])
      block == SubSeq(data_[r], 1, transfer_size)
  IN /\ stage[r] = "reading"
     /\ IF has_data
        THEN /\ offset_' = [offset_ EXCEPT ![r] = @ + transfer_size]
             /\ received' = [received EXCEPT ![r] = @ \o block]
             /\ UNCHANGED stage
        ELSE /\ stage' = [stage EXCEPT ![r] = "done"]
             /\ UNCHANGED <<offset_, received>>
     /\ UNCHANGED <<url, data_, mime_type_, response_length>>

(* ReadResponse copies the next block.  CEF calls it until it returns false
   or the announced number of bytes has been read. *)
ReadResponse(r, bytes_to_read) ==
  LET transfer_size == SmallerOf(bytes_to_read, Len(data_[r]) - offset_[r])
      has_data == offset_[r] < Len(data_[r])
      block == SubSeq(data_[r], offset_[r] + 1, offset_[r] + transfer_size)
  IN /\ stage[r] = "reading"
     /\ IF has_data
        THEN /\ offset_' = [offset_ EXCEPT ![r] = @ + transfer_size]
             /\ received' = [received EXCEPT ![r] = @ \o block]
             /\ \/ UNCHANGED stage
                \/ Len(received'[r]) = response_length[r]
                   /\ stage' = [stage EXCEPT ![r] = "done"]
        ELSE /\ stage' = [stage EXCEPT ![r] = "done"]
             /\ UNCHANGED <<offset_, received>>
     /\ UNCHANGED <<url, data_, mime_type_, response_length>>

(* Cancel does nothing of its own: CEF drops the handler. *)
Cancel(r) ==
  /\ Open(r)
  /\ stage' = [stage EXCEPT ![r] = "cancelled"]
  /\ UNCHANGED <<url, data_, offset_, mime_type_, response_length, received>>

RequestStep(r) ==
  \/ \E u \in Urls : Create(r, u)
  \/ \E image_found \in BOOLEAN : ProcessRequest(r, image_found)
  \/ GetResponseHeaders(r)
  \/ \E n \in 1..MaxRead : ReadResponse(r, n)
  \/ Cancel(r)

Next == \E r \in Requests : RequestStep(r)

Spec == Init /\ [][Next]_vars

(* CEF carries every request it has made on to its end, as
   cef_resource_handler.h describes. *)
Fairness ==
  \A r \in Requests :
    /\ WF_vars(\E image_found \in BOOLEAN : ProcessRequest(r, image_found))
    /\ WF_vars(GetResponseHeaders(r))
    /\ WF_vars(\E n \in 1..MaxRead : ReadResponse(r, n))

FairSpec == Spec /\ Fairness

-----------------------------------------------------------------------------

(* The response a request is to get. *)
ResponseTo(r) == IF url[r] \in HandlerUrls THEN PageHtml[url[r]] ELSE LogoImage

(* A request CEF took to its end has all the bytes of its own response, each
   once and in order, and as many as were announced, however the reads were
   cut and whatever other requests were read in between. *)
DoneIsWhole ==
  \A r \in Requests :
    stage[r] = "done" => received[r] = ResponseTo(r) /\ Len(received[r]) = response_length[r]

(* The image is never served as a page or the page as an image. *)
TypeFitsBytes ==
  \A r \in Requests :
    /\ mime_type_[r] = "text/html" => data_[r] = PageHtml[url[r]]
    /\ mime_type_[r] = "image/png" => data_[r] = LogoImage

(* Every handled request ends: each read hands out something, so the last
   byte is reached. *)
RequestsEnd == \A r \in Requests : (stage[r] = "created") ~> ~Open(r)

Outcome(r) ==
  CASE stage[r] = "done" -> "complete"
    [] stage[r] \in {"refused", "cancelled"} -> "dropped"
    [] OTHER -> "open"

Stream == INSTANCE ByteStream WITH
            whole <- data_,
            arrived <- received,
            outcome <- [r \in Requests |-> Outcome(r)]

(* The handlers are byte streams that do not disturb each other. *)
ImplementsStream == Stream!StreamSpec
=============================================================================
