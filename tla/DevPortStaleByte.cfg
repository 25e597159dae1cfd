SPECIFICATION Spec
CONSTANTS
    Offsets = {"temp", "duty"}
    Bytes = {"low", "high"}
    Nothing = Nothing
PROPERTY
    AnswersTheCall
