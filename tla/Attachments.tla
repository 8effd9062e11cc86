------------------------------ MODULE Attachments ------------------------------
(* Attachments: GeneratePresignedUploadURL and ConfirmS3Upload of            *)
(* handlers/ticket.go, behind the sessions of module Sessions.  An upload is *)
(* spread over the table ticket_attachments, two Redis keys and an object in *)
(* S3, with no transaction around them.                                      *)
EXTENDS Sessions

CONSTANTS Uploads,      \* the ids given to attachments
          Nobody,       \* no attachment in a handler's hand
          Hour          \* how long the presigned URL is good for

ASSUME UploadAssumption == Hour \in Nat \ {0} /\ Nobody \notin Uploads

VARIABLES
  att,              \* per handler: the attachment of its request
  urlUntil,         \* per upload: when its URL ends; 0 if it has none
  idKey, s3Key,     \* the keys "attachmentIdKey:..." and "s3Id:..."
  file,             \* the row: "none", "empty" (file_url is NULL) or "stored"
  object,           \* the uploads whose file is in S3
  told,             \* the uploads whose id and URL a client was given
  confirmed         \* history: those a client was told are uploaded

storedVars == <<urlUntil, idKey, s3Key, file, object, told, confirmed>>
uploadVars == <<att, storedVars>>

UploadInit ==
  /\ att = [h \in Handlers |-> Nobody] /\ urlUntil = [a \in Uploads |-> 0]
  /\ idKey = NoKeys(Uploads) /\ s3Key = NoKeys(Uploads)
  /\ file = [a \in Uploads |-> "none"]
  /\ object = {} /\ told = {} /\ confirmed = {}

(* Mutant: keys that end before the URL does.                                *)
KeyLifeTooShort == Hour - 1

KeyLife == Hour     \* time.Minute*60

(* The steps of these routes leave the session alone.                        *)
Rest == UNCHANGED <<now, session, lockVars, logins, requests, historyVars>>

(* With its answer a handler is done with its attachment.                    *)
Settled(h) == att' = [att EXCEPT ![h] = IF pc'[h] = "idle" THEN Nobody ELSE @]

Finish(h) == Answer(h) /\ Settled(h)

(* On to the next call for the same attachment.                              *)
GoOn(h, step) == Goto(h, step) /\ UNCHANGED att

-----------------------------------------------------------------------------
(* The requests.  The attachment is fixed when the request is made: for a    *)
(* new one its id, which the handler draws at random; a client confirms an   *)
(* id it was given, possibly again, and whether or not it has sent the file. *)

Fresh(a) == urlUntil[a] = 0 /\ \A h \in Handlers : att[h] # a

UploadRequest(h, t, o, a) ==
  /\ Request(h, t, o)
  /\ \/ o = "generate" /\ Fresh(a)
     \/ o = "confirm" /\ a \in told
  /\ att' = [att EXCEPT ![h] = a]
  /\ UNCHANGED storedVars

-----------------------------------------------------------------------------
(* GeneratePresignedUploadURL: sign the URL, which calls nobody; write the   *)
(* two keys; insert the row; answer.  A failure leaves what was written.     *)

Presign(h) ==
  /\ pc[h] = "presign"
  /\ urlUntil' = [urlUntil EXCEPT ![att[h]] = now + Hour]
  /\ GoOn(h, "setId") /\ Reliable /\ Rest
  /\ UNCHANGED <<idKey, s3Key, file, object, told, confirmed>>

SetIdKey(h) ==
  /\ pc[h] = "setId"
  /\ Call(idKey' = SetEx(idKey, att[h], now + KeyLife), UNCHANGED idKey,
          GoOn(h, "setS3"), Finish(h))
  /\ Rest /\ UNCHANGED <<urlUntil, s3Key, file, object, told, confirmed>>

SetS3Key(h) ==
  /\ pc[h] = "setS3"
  /\ Call(s3Key' = SetEx(s3Key, att[h], now + KeyLife), UNCHANGED s3Key,
          GoOn(h, "insert"), Finish(h))
  /\ Rest /\ UNCHANGED <<urlUntil, idKey, file, object, told, confirmed>>

Insert(h) ==
  /\ pc[h] = "insert"
  /\ Call(file' = [file EXCEPT ![att[h]] = "empty"], UNCHANGED file,
          told' = told \cup {att[h]}, UNCHANGED told)
  /\ Finish(h) /\ Rest
  /\ UNCHANGED <<urlUntil, idKey, s3Key, object, confirmed>>

-----------------------------------------------------------------------------
(* The client sends the file to S3, which accepts it while the URL is good.  *)

Upload(a) ==
  /\ a \in told \ object /\ now < urlUntil[a]
  /\ object' = object \cup {a}
  /\ UNCHANGED <<sessionVars, att, urlUntil, idKey, s3Key, file, told, confirmed>>

-----------------------------------------------------------------------------
(* ConfirmS3Upload: two keys are read, the row is updated, the keys deleted. *)
(* The code looks at the keys and not at S3.                                 *)

GetIdKey(h) ==
  /\ pc[h] = "getId"
  /\ \/ Found(idKey, att[h]) /\ Reliable /\ GoOn(h, "getS3")
     \/ ~Found(idKey, att[h]) /\ Reliable /\ Finish(h)
     \/ Fault /\ Finish(h)
  /\ Rest /\ UNCHANGED storedVars

GetS3Key(h) ==
  /\ pc[h] = "getS3"
  /\ \/ Found(s3Key, att[h]) /\ Reliable /\ GoOn(h, "update")
     \/ ~Found(s3Key, att[h]) /\ Reliable /\ Finish(h)
     \/ Fault /\ Finish(h)
  /\ Rest /\ UNCHANGED storedVars

(* Mutant: the error of the UPDATE is not looked at.                         *)
OnAndOn(h) == GoOn(h, "dropS3")

UpdateFailed(h) == Finish(h)

UpdateRow(h) ==
  /\ pc[h] = "update"
  /\ Call(file' = [file EXCEPT ![att[h]] = "stored"], UNCHANGED file,
          GoOn(h, "dropS3"), UpdateFailed(h))
  /\ Rest /\ UNCHANGED <<urlUntil, idKey, s3Key, object, told, confirmed>>

(* The errors of the two deletions are ignored.                              *)
DropS3Key(h) ==
  /\ pc[h] = "dropS3"
  /\ Call(s3Key' = Del(s3Key, att[h]), UNCHANGED s3Key,
          GoOn(h, "dropId"), GoOn(h, "dropId"))
  /\ Rest /\ UNCHANGED <<urlUntil, idKey, file, object, told, confirmed>>

DropIdKey(h) ==
  /\ pc[h] = "dropId"
  /\ Call(idKey' = Del(idKey, att[h]), UNCHANGED idKey, TRUE, TRUE)
  /\ confirmed' = confirmed \cup {att[h]}
  /\ Finish(h) /\ Rest
  /\ UNCHANGED <<urlUntil, s3Key, file, object, told>>

-----------------------------------------------------------------------------
UploadStep(h) ==
  \/ Presign(h)  \/ SetIdKey(h) \/ SetS3Key(h)  \/ Insert(h)
  \/ GetIdKey(h) \/ GetS3Key(h)  \/ UpdateRow(h)
  \/ DropS3Key(h) \/ DropIdKey(h)

UploadTick ==
  /\ idKey' = Expire(idKey, now') /\ s3Key' = Expire(s3Key, now')
  /\ UNCHANGED <<att, urlUntil, file, object, told, confirmed>>

UploadCrash ==
  /\ att' = [h \in Handlers |-> Nobody]
  /\ UNCHANGED storedVars

-----------------------------------------------------------------------------
(* Properties.                                                               *)

UploadTypeOK ==
  /\ att \in [Handlers -> Uploads \cup {Nobody}] /\ urlUntil \in [Uploads -> Nat]
  /\ idKey \in [Uploads -> Nat] /\ s3Key \in [Uploads -> Nat]
  /\ file \in [Uploads -> {"none", "empty", "stored"}]
  /\ object \subseteq told /\ told \subseteq Uploads /\ confirmed \subseteq Uploads

(* As long as its URL is good, an upload that is not confirmed yet can be:   *)
(* the keys that ConfirmS3Upload asks for are there, and no request that     *)
(* failed or was cut short half-way has taken them away.                     *)
ConfirmableWhileUploadable ==
  \A a \in told : (file[a] # "stored" /\ now < urlUntil[a])
                    => idKey[a] > now /\ s3Key[a] > now

(* Once a client was answered "File uploaded successfully", the row of the   *)
(* attachment names the file from then on, whatever failed and whoever else  *)
(* confirmed the same upload or lost the answer (ConfirmS3Upload).  Nothing  *)
(* says that the file is in S3: the code does not look.                      *)
SuccessMeansNamed == \A a \in confirmed : file[a] = "stored"

==============================================================================
