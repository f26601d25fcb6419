\* One process, two features, two dimensions, PostgreSQL and one other dependency.
SPECIFICATION FairService
CONSTANTS
    Capabilities = {"llm", "embed"}
    EnvNames = {"local", "staging"}
    Dimensions = {1, 2}
    HttpCodes = {404, 499, 503}
    Dependencies = {"postgres", "s3"}
    Draining = {"postgres"}
INVARIANTS
    MigrationsInvert
    VerifiedWritesFit
    AnswersAreHonest
    ReadyIsTrue
PROPERTIES
    ReadyzAnswers
