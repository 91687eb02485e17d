---------------------------- MODULE Registration ----------------------------
(***************************************************************************)
(* Registration and tokens on the server: auth.service.ts creates an       *)
(* organization and then its user, in two statements, and answers a login  *)
(* and a refresh from the user and organization it finds.  seed.ts creates *)
(* the default organization.  A statement is one step.                     *)
(***************************************************************************)
EXTENDS Naturals, FiniteSets

CONSTANTS
    Emails, Names,
    DEFAULT_ORGANIZATION_NAME,
    Handlers,       \* requests, and runs of the seed, at the same time
    MaxOrganizations,       \* bound
    Null

ConstantsAssumption ==
    /\ DEFAULT_ORGANIZATION_NAME \in Names /\ MaxOrganizations \in Nat
    /\ Null \notin Emails \cup Names

VARIABLES
    organizations,  \* name of each row by its number, or Null
    users,          \* the organization of each user by e-mail, or Null
    pc, email, name, org,   \* each handler: step, input, organization it holds
    answered,       \* per e-mail: organization of the user a 201 described, or Null
    claims          \* per e-mail: organization and its name in the last token, or Null

tables == <<organizations, users>>
locals == <<pc, email, name, org>>
vars == <<tables, locals, answered, claims>>

Ids == 1..MaxOrganizations
Free == {o \in Ids : organizations[o] = Null}
Claims(e) == <<users[e], organizations[users[e]]>>

Init ==
    /\ organizations = [o \in Ids |-> Null] /\ users = [e \in Emails |-> Null]
    /\ pc = [h \in Handlers |-> "idle"] /\ email = [h \in Handlers |-> Null]
    /\ name = [h \in Handlers |-> Null] /\ org = [h \in Handlers |-> Null]
    /\ answered = [e \in Emails |-> Null] /\ claims = [e \in Emails |-> Null]

\* findByEmail: a user that exists is a conflict, and nothing happens
StartRegister(h, e, n) ==
    /\ pc[h] = "idle" /\ users[e] = Null
    /\ pc' = [pc EXCEPT ![h] = "organization"]
    /\ email' = [email EXCEPT ![h] = e] /\ name' = [name EXCEPT ![h] = n]
    /\ UNCHANGED <<tables, org, answered, claims>>

\* seed: found, or saved
StartSeed(h) ==
    /\ pc[h] = "idle" /\ \A o \in Ids : organizations[o] # DEFAULT_ORGANIZATION_NAME
    /\ pc' = [pc EXCEPT ![h] = "organization"]
    /\ name' = [name EXCEPT ![h] = DEFAULT_ORGANIZATION_NAME]
    /\ UNCHANGED <<tables, email, org, answered, claims>>

Return(h) ==
    /\ pc' = [pc EXCEPT ![h] = "idle"] /\ email' = [email EXCEPT ![h] = Null]
    /\ name' = [name EXCEPT ![h] = Null] /\ org' = [org EXCEPT ![h] = Null]

\* Variant: organizations are found by name.
CreateOrFind(h) ==
    /\ pc[h] = "organization"
    /\ \E o \in Free \cup {o \in Ids : organizations[o] = name[h]} :
        /\ organizations' = [organizations EXCEPT ![o] = name[h]]
        /\ IF email[h] = Null THEN Return(h)
           ELSE /\ org' = [org EXCEPT ![h] = o] /\ pc' = [pc EXCEPT ![h] = "user"]
                /\ UNCHANGED <<email, name>>
    /\ UNCHANGED <<users, answered, claims>>

\* OrganizationsService.create; the password is hashed then
CreateOrganization(h) ==
    /\ pc[h] = "organization"
    /\ \E o \in Free :
        /\ organizations' = [organizations EXCEPT ![o] = name[h]]
        /\ IF email[h] = Null THEN Return(h)
           ELSE /\ org' = [org EXCEPT ![h] = o] /\ pc' = [pc EXCEPT ![h] = "user"]
                /\ UNCHANGED <<email, name>>
    /\ UNCHANGED <<users, answered, claims>>

\* UQ_users_email
EmailTaken(e) == users[e] # Null

\* the user, an administrator of the organization
NewUser(o) == o

CreateUser(h) ==
    /\ pc[h] = "user" /\ Return(h)
    /\ IF EmailTaken(email[h]) THEN UNCHANGED <<users, answered>>
       ELSE /\ users' = [users EXCEPT ![email[h]] = NewUser(org[h])]
            /\ answered' = [answered EXCEPT ![email[h]] =
                                IF @ = Null THEN org[h] ELSE @]
    /\ UNCHANGED <<organizations, claims>>

Throws(h) ==
    /\ pc[h] # "idle" /\ Return(h)
    /\ UNCHANGED <<tables, answered, claims>>

\* the user's own organization
OrganizationOf(e) == users[e]

\* login, refresh and every request of the token after it
IssueToken(e) ==
    /\ users[e] # Null
    /\ claims' = [claims EXCEPT ![e] = <<OrganizationOf(e), organizations[OrganizationOf(e)]>>]
    /\ UNCHANGED <<tables, locals, answered>>

Register(h) == CreateOrganization(h) \/ CreateUser(h) \/ Throws(h)

Next ==
    \/ \E h \in Handlers : \/ Register(h) \/ StartSeed(h)
                           \/ \E e \in Emails, n \in Names : StartRegister(h, e, n)
    \/ \E e \in Emails : IssueToken(e)

Spec == Init /\ [][Next]_vars

-----------------------------------------------------------------------------
(* Properties *)

\* Types of every variable.
TypeOK ==
    /\ organizations \in [Ids -> Names \cup {Null}] /\ users \in [Emails -> Ids \cup {Null}]
    /\ pc \in [Handlers -> {"idle", "organization", "user"}]
    /\ email \in [Handlers -> Emails \cup {Null}] /\ name \in [Handlers -> Names \cup {Null}]
    /\ org \in [Handlers -> Ids \cup {Null}] /\ answered \in [Emails -> Ids \cup {Null}]
    /\ claims \in [Emails -> (Ids \X Names) \cup {Null}]

\* Whoever was told of an account has that account, however many registrations
\* of the e-mail overlap (register looks it up two statements before).
AnsweredIsStored == \A e \in Emails : answered[e] # Null => users[e] = answered[e]

\* "a new user under a newly created organization": no organization has two,
\* also when their names are equal and registrations or the seed fail half way.
OneUserPerOrganization ==
    \A e, f \in Emails : e # f /\ users[e] # Null => users[e] # users[f]

\* A token speaks for the organization its user belongs to.
ClaimsAreOfTheUser == \A e \in Emails : claims[e] # Null => claims[e] = Claims(e)
=============================================================================
