\* Two solves and three images; two elements and two saves; three addresses, two
\* rules of which the plan allows one, two runs; two options pages and the
\* recorder, a profile, a rule and a captcha route.
SPECIFICATION Spec
CONSTANTS
    first = first  second = second  f1 = f1  f2 = f2
    rule = rule  captcha = captcha
    None = None
    Solve = {c1, c2}
    Images = 3
    KeyOf <- Keys
    MaxCaptchaEvents = 4
    Empty = Empty  User = User  Partial = Partial
    Target = {text, button}
    Button = button
    Save = {m1, m2}
    MaxSteps = 3
    MaxActs = 5
    Address = {first, second, elsewhere}
    Rules = {1, 2}
    Matches <- MatchedAddresses
    Fields <- FilledFields
    Flows = {2}
    PlanLimit = 1
    Run = {c1, c2}
    MaxRetries = 2
    MaxChanges = 3
    Blank = Blank  ByRule = ByRule
    Page = {p1, p2}
    Profile = {work}
    Global = Global
    Item = {rule, captcha}
    KindOf <- Kinds
    Others = {"rules"}
    MaxEdits = 5
INVARIANTS AnswersAreNotBoughtTwice NoStepVanishes ItemsHaveProfiles ActiveProfileExists
PROPERTIES OneSolveAtATime ManualInputStays EditsSurviveAutomaticRuns ChangesAreFilled
    ItemsLeaveOnPurpose
CHECK_DEADLOCK FALSE
