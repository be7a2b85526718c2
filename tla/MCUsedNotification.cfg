CONSTANTS
  QSize = 4
  IdxMod = 8
  MaxAdds = 7
SPECIFICATION NotificationSpec
PROPERTY
  AnswerExact
