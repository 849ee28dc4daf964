----------------------------- MODULE SocialLogin ----------------------------
(* Sign-in by Google, Yandex and Apple, and the contact that onboarding asks *)
(* for afterwards. An identity is linked to the user it was first seen with: *)
(* the one who has its email or number, or a new one. A sign-in is one       *)
(* transaction, reads before writes; the unique keys on contacts and         *)
(* identities are what overlapping ones meet, and a statement that hits one  *)
(* ends its transaction, also where the code means to go on.                 *)
EXTENDS Integers, Sequences, FiniteSets

CONSTANTS
    Calls,          \* requests that may overlap
    Identities,     \* verified identities: [provider, email, phone], of trusted contacts only
    Emails, Phones, \* contacts somebody may give in onboarding
    MaxCalls        \* bound on requests

VARIABLES
    user,       \* User rows: email, phone
    account,    \* ExternalAuthAccount: per identity its user, 0 for no row
    session,    \* providers of the sessions of each user
    call,       \* per open request: what it has read
    left,       \* requests left
    made,       \* (history) the identity each user was made for, if any
    ins,        \* (history) users an identity has been let in as
    replaced,   \* (history) a sign-in has replaced or removed a contact
    asked       \* (history) contacts given where onboarding has insisted, until given anew

vars == <<user, account, session, call, left, made, ins, replaced, asked>>

None == "none"
Idle == [at |-> "idle"]

Init ==
    /\ user = <<>> /\ session = <<>> /\ made = <<>>
    /\ account = [i \in Identities |-> 0]
    /\ call = [c \in Calls |-> Idle]
    /\ left = MaxCalls
    /\ ins = [i \in Identities |-> {}]
    /\ replaced = FALSE /\ asked = {}

Begin(c, rec) ==
    /\ call[c] = Idle
    /\ left > 0 /\ left' = left - 1
    /\ call' = [call EXCEPT ![c] = rec]
    /\ UNCHANGED <<user, account, session, made, ins, replaced, asked>>

End(c) == call' = [call EXCEPT ![c] = Idle]

Owners(kind, contact) == {u \in DOMAIN user : contact # None /\ user[u][kind] = contact}

(* The unique keys of contacts let u have these.                            *)
Free(u, email, phone) == Owners("email", email) \union Owners("phone", phone) \subseteq {u}

-----------------------------------------------------------------------------
(* createAppSession: the identity's account, else the users who have its    *)
(* email or number, who must not be two.                                    *)
BeginSignIn(c, i) ==
    LET owners == Owners("email", i.email) \union Owners("phone", i.phone) IN
    /\ account[i] = 0 => Cardinality(owners) <= 1
    /\ Begin(c, [at |-> "sign-in", id |-> i, known |-> account[i] # 0,
                 user |-> IF account[i] # 0 THEN account[i]
                          ELSE IF owners # {} THEN CHOOSE u \in owners : TRUE ELSE 0])

(* Slip: the contacts of the identity are taken over.                       *)
AttachedAlways(u, i) ==
    [email |-> IF i.email # None THEN i.email ELSE user[u].email,
     phone |-> IF i.phone # None THEN i.phone ELSE user[u].phone]

(* attachEmailIfEmpty, attachPhoneIfEmpty                                   *)
Attached(u, i) ==
    [email |-> IF user[u].email = None THEN i.email ELSE user[u].email,
     phone |-> IF user[u].phone = None THEN i.phone ELSE user[u].phone]

(* A number somebody else has refuses the sign-in even if it is not needed. *)
Refused(u, i) ==
    ~Free(u, Attached(u, i).email, Attached(u, i).phone)
        \/ ~(Owners("phone", i.phone) \subseteq {u})

SignIn(c) ==
    LET i == call[c].id
        u == call[c].user
        new == Len(user) + 1
    IN
    /\ call[c].at = "sign-in"
    /\ \/ (* refreshExistingAccount, or createOrLinkUser to a user who is there *)
          /\ u # 0 /\ (call[c].known \/ account[i] = 0) /\ ~Refused(u, i)
          /\ user' = [user EXCEPT ![u] = Attached(u, i)]
          /\ account' = [account EXCEPT ![i] = u]
          /\ session' = [session EXCEPT ![u] = @ \union {i.provider}]
          /\ ins' = [ins EXCEPT ![i] = @ \union {u}]
          /\ replaced' = (replaced \/ \E k \in {"email", "phone"} :
                                         user[u][k] \notin {None, user'[u][k]})
          /\ UNCHANGED made
       \/ (* createUser *)
          /\ u = 0 /\ account[i] = 0 /\ Free(new, i.email, i.phone)
          /\ user' = Append(user, [email |-> i.email, phone |-> i.phone])
          /\ account' = [account EXCEPT ![i] = new]
          /\ session' = Append(session, {i.provider})
          /\ ins' = [ins EXCEPT ![i] = @ \union {new}]
          /\ made' = Append(made, {i})
          /\ UNCHANGED replaced
       \/ (* a conflict, or an error: nothing of it stays *)
          UNCHANGED <<user, account, session, made, ins, replaced>>
    /\ End(c)
    /\ UNCHANGED <<left, asked>>

(* findOrCreateUserByPhoneNumber: sign-in by a code sent to the number.     *)
PhoneSignIn(p) ==
    /\ left > 0 /\ left' = left - 1
    /\ LET owners == Owners("phone", p)
           u == CHOOSE v \in owners : TRUE
       IN  IF owners = {}
           THEN /\ user' = Append(user, [email |-> None, phone |-> p])
                /\ session' = Append(session, {"phone_otp"})
                /\ made' = Append(made, {})
           ELSE /\ session' = [session EXCEPT ![u] = @ \union {"phone_otp"}]
                /\ UNCHANGED <<user, made>>
    /\ UNCHANGED <<account, call, ins, replaced, asked>>

-----------------------------------------------------------------------------
(* Onboarding *)

(* requiredContactFor: Apple's sessions are asked for nothing.              *)
Required(provider, row) ==
    CASE provider = "phone_otp" /\ row.email = None            -> "email"
      [] provider \in {"google", "yandex"} /\ row.phone = None -> "phone"
      [] OTHER                                                 -> None

(* Slip: what onboarding insists on may be left out.                        *)
GivenAnyhow(provider, row, given) == TRUE

Given(provider, row, given) ==
    LET k == Required(provider, row) IN k # None => given[k] \notin {None, "as it is"}

(* updateOnboarding: what its transaction reads. A contact that is given    *)
(* empty is removed.                                                        *)
BeginOnboarding(c, u, provider, email, phone) ==
    LET given == [email |-> email, phone |-> phone] IN
    /\ provider \in session[u]
    /\ Given(provider, user[u], given)
    /\ Free(u, email, phone)
    /\ Begin(c, [at |-> "onboard", user |-> u, given |-> given,
                 required |-> Required(provider, user[u])])

Onboard(c) ==
    LET u == call[c].user
        given == call[c].given
        row == [k \in {"email", "phone"} |->
                   IF given[k] = "as it is" THEN user[u][k] ELSE given[k]]
        anew == {k \in {"email", "phone"} : given[k] # "as it is"}
    IN
    /\ call[c].at = "onboard"
    /\ IF Free(u, given.email, given.phone)
       THEN /\ user' = [user EXCEPT ![u] = row]
            /\ asked' = {a \in asked : ~(a[1] = u /\ a[2] \in anew)}
                           \union {<<u, k>> : k \in {call[c].required} \ {None}}
       ELSE UNCHANGED <<user, asked>>
    /\ End(c)
    /\ UNCHANGED <<account, session, left, made, ins, replaced>>

Next ==
    \/ \E c \in Calls :
          \/ \E i \in Identities : BeginSignIn(c, i)
          \/ SignIn(c)
          \/ \E u \in DOMAIN user : \E provider \in session[u],
                e \in Emails \union {None, "as it is"}, p \in Phones \union {None, "as it is"} :
                BeginOnboarding(c, u, provider, e, p)
          \/ Onboard(c)
    \/ \E p \in Phones : PhoneSignIn(p)

Spec == Init /\ [][Next]_vars

-----------------------------------------------------------------------------
(* However sign-ins and onboarding overlap, an identity is let in as one    *)
(* user, the one its account says; whoever was made for an identity has its *)
(* account, so that no sign-in leaves a user behind; nobody shares a        *)
(* contact; a sign-in never takes a contact from a user; and what           *)
(* onboarding has insisted on is there until it is given anew.              *)
ContactsHold ==
    /\ \A i \in Identities : ins[i] = (IF account[i] = 0 THEN {} ELSE {account[i]})
    /\ \A u \in DOMAIN user :
          /\ \A i \in made[u] : account[i] = u
          /\ Free(u, user[u].email, user[u].phone)
    /\ ~replaced
    /\ \A a \in asked : user[a[1]][a[2]] # None
=============================================================================
